---- MODULE Spec2Model ----
(***************************************************************************)
(* Events radar: the ingestion of crawler output batches into the SQLite   *)
(* store with its FTS5 index (src/api), and the crawler runner with its    *)
(* fetch primitive (src/scrapers/base.py).                                 *)
(*                                                                         *)
(* Text that the code inspects character by character (price, address,    *)
(* title, description, venue, file names) is a tuple of one-character      *)
(* strings.  Python's None / SQL NULL in such a field is the tuple None.   *)
(***************************************************************************)
EXTENDS Integers, Sequences, FiniteSets, TLC

VARIABLES
    outputDir,   \* scrapers/output: file name -> file content
    dirExists,   \* SCRAPERS_OUTPUT.exists()
    db,          \* the writer connection's view: events, events_fts, sqlite_sequence
    committed,   \* the committed database, what any other connection reads
    now,         \* the wall clock, in seconds (datetime('now'))
    ingPc,       \* where ingest_events is: "idle", "loop", "drafts"
    jsonFiles,   \* sorted(SCRAPERS_OUTPUT.glob("*.json")) of the running ingestion
    fileIdx,     \* index in jsonFiles of the next file to open
    events,      \* the drafts of the open file
    rawIdx,      \* index in events of the next draft
    count,       \* ingest_events' count
    runs,        \* ingest_events calls finished so far
    ingResult,   \* how the last ingest_events call ended
    lastStmt,    \* history: the last INSERT .. ON CONFLICT statement and its effect
    history      \* history: natural key -> the last draft executed in this transaction or before

VARIABLES
    clock,       \* the event loop's time, in quarter seconds, on a sliding origin
    today,       \* date.today(), an index into DateText
    apiKeys,     \* the crawlers whose API key is set in the environment
    raPc,        \* where run_all is: "idle", "loop", "running", "done"
    raNames,     \* run_all's names
    raIdx,       \* index in raNames of the crawler run_all is at
    all_events,  \* run_all's all_events
    raResult,    \* how run_all ended
    scrapers,    \* the live BaseScraper instances: instance number -> its fields
    runLog,      \* history: the run() calls that have ended, in order
    uaPool       \* the module's _USER_AGENTS list

VARIABLES
    resp,        \* the API request being served: none, a list between its two statements, or a response
    rival        \* a second ingest_events call running against the same database file

ingestVars == <<db, committed, now, ingPc, jsonFiles,
                fileIdx, events, rawIdx, count, runs, ingResult, lastStmt, history>>
dirVars == <<outputDir, dirExists>>
crawlVars == <<clock, today, apiKeys, uaPool, raPc, raNames, raIdx, all_events, raResult,
               scrapers, runLog>>
apiVars == <<resp, rival>>
vars == <<ingestVars, dirVars, crawlVars, apiVars>>

(***************************************************************************)
(* Bounds                                                                  *)
(***************************************************************************)
MaxRuns == 2
MaxTime == 2
MaxPages == 2
\* differences of loop times are kept up to Horizon quarter seconds
Horizon == 8

(***************************************************************************)
(* Text                                                                    *)
(***************************************************************************)
None == <<"None">>

Uppers == <<"A","B","C","D","E","F","G","H","I","J","K","L","M",
            "N","O","P","Q","R","S","T","U","V","W","X","Y","Z">>
Lowers == <<"a","b","c","d","e","f","g","h","i","j","k","l","m",
            "n","o","p","q","r","s","t","u","v","w","x","y","z">>
Digits == {"0","1","2","3","4","5","6","7","8","9"}
Whitespace == {" ", "\t", "\n"}

\* str.lower(), one character
LowerMap == [c \in {Uppers[i] : i \in 1..Len(Uppers)} |->
                Lowers[CHOOSE i \in 1..Len(Uppers) : Uppers[i] = c]]
LowerChar(c) == IF c \in DOMAIN LowerMap THEN LowerMap[c] ELSE c

\* str.lower()
Lower(s) == [i \in 1..Len(s) |-> LowerChar(s[i])]

\* str.strip()
Strip(s) ==
    LET keep == {i \in 1..Len(s) : s[i] \notin Whitespace}
    IN  IF keep = {} THEN <<>>
        ELSE LET lo == CHOOSE i \in keep : \A j \in keep : i <= j
                 hi == CHOOSE i \in keep : \A j \in keep : j <= i
             IN  SubSeq(s, lo, hi)

\* Python's  key in s  for strings
Contains(s, key) ==
    \E i \in 1..(Len(s) - Len(key) + 1) : \A j \in 1..Len(key) : s[i + j - 1] = key[j]

\* Python's  a < b  for strings over the file-name alphabet (code point order)
CharOrder == <<"-", ".", "0", "1", "2", "3", "4", "5", "6", "7", "8", "9", "_",
               "a","b","c","d","e","f","g","h","i","j","k","l","m",
               "n","o","p","q","r","s","t","u","v","w","x","y","z">>
CharRank(c) == CHOOSE i \in 1..Len(CharOrder) : CharOrder[i] = c
StrLess(a, b) ==
    \/ /\ Len(a) < Len(b)
       /\ SubSeq(b, 1, Len(a)) = a
    \/ \E i \in 1..Len(a) :
          /\ i <= Len(b)
          /\ SubSeq(a, 1, i - 1) = SubSeq(b, 1, i - 1)
          /\ CharRank(a[i]) < CharRank(b[i])

(***************************************************************************)
(* src/api/ingest.py: derived fields                                       *)
(***************************************************************************)
\* NYC_BOROUGHS, in the dict's insertion order
NYC_BOROUGHS == <<
    <<<<"m","a","n","h","a","t","t","a","n">>, "Manhattan">>,
    <<<<"b","r","o","o","k","l","y","n">>, "Brooklyn">>,
    <<<<"q","u","e","e","n","s">>, "Queens">>,
    <<<<"b","r","o","n","x">>, "Bronx">>,
    <<<<"t","h","e"," ","b","r","o","n","x">>, "Bronx">>,
    <<<<"s","t","a","t","e","n"," ","i","s","l","a","n","d">>, "Staten Island">> >>

KW_new_york == <<"n","e","w"," ","y","o","r","k">>
KW_ny == <<","," ","n","y"," ">>

\* the default looking for ", ny" without the blank after it
M_BoroughOfLower(addr_lower) ==
    LET hits == {i \in 1..Len(NYC_BOROUGHS) : Contains(addr_lower, NYC_BOROUGHS[i][1])}
    IN  IF hits # {}
        THEN NYC_BOROUGHS[CHOOSE i \in hits : \A j \in hits : i <= j][2]
        ELSE IF Contains(addr_lower, KW_new_york) \/ Contains(addr_lower, <<",", " ", "n", "y">>)
             THEN "Manhattan"
             ELSE "None"

\* the loop over NYC_BOROUGHS and the default, on the lowered address
BoroughOfLower(addr_lower) ==
    LET hits == {i \in 1..Len(NYC_BOROUGHS) : Contains(addr_lower, NYC_BOROUGHS[i][1])}
    IN  IF hits # {}
        THEN NYC_BOROUGHS[CHOOSE i \in hits : \A j \in hits : i <= j][2]
        ELSE IF Contains(addr_lower, KW_new_york) \/ Contains(addr_lower, KW_ny)
             THEN "Manhattan"
             ELSE "None"

\* extract_borough(address): the borough name, or "None"
extract_borough(address) ==
    IF address = None \/ address = <<>> THEN "None"
    ELSE CHOOSE b \in {BoroughOfLower(addr_lower) : addr_lower \in {Lower(address)}} : TRUE

FreeWords == {<<>>, <<"f","r","e","e">>, <<"$","0">>, <<"$","0",".","0","0">>, <<"0">>, <<"0",".","0","0">>}

\* check_is_free(price) without strip()
M_check_is_free(price) ==
    IF price = None THEN FALSE
    ELSE LET cleaned == Lower(price) IN cleaned \in FreeWords

\* check_is_free(price)
check_is_free(price) ==
    IF price = None THEN FALSE
    ELSE LET cleaned == Lower(Strip(price)) IN cleaned \in FreeWords

(***************************************************************************)
(* src/scrapers/models.py: the Event model, as pydantic validates it       *)
(***************************************************************************)
EventCategory == {"music", "theater", "comedy", "art", "food", "sports", "nightlife", "other"}

\* datetime parsing of the raw timestamps in use; NoDatetime when pydantic rejects
NoDatetime == <<>>
ParseDatetime(s) ==
    CASE s = "2026-02-14T20:00:00" -> <<2026, 2, 14, 20, 0, 0>>
      [] s = "2026-02-14 20:00:00" -> <<2026, 2, 14, 20, 0, 0>>
      [] s = "2026-02-14T23:00:00" -> <<2026, 2, 14, 23, 0, 0>>
      [] s = "2026-03-01T19:30:00" -> <<2026, 3, 1, 19, 30, 0>>
      [] s = "2026-01-01T00:00:00" -> <<2026, 1, 1, 0, 0, 0>>
      [] OTHER -> NoDatetime

\* datetime.isoformat()
IsoFormat(dt) ==
    CASE dt = <<2026, 2, 14, 20, 0, 0>> -> "2026-02-14T20:00:00"
      [] dt = <<2026, 2, 14, 23, 0, 0>> -> "2026-02-14T23:00:00"
      [] dt = <<2026, 3, 1, 19, 30, 0>> -> "2026-03-01T19:30:00"
      [] dt = <<2026, 1, 1, 0, 0, 0>> -> "2026-01-01T00:00:00"

\* HttpUrl validation followed by str(): the normalised URL, or "invalid"
StrUrl(u) ==
    CASE u = "https://dice.fm/event/1" -> "https://dice.fm/event/1"
      [] u = "https://meetup.com" -> "https://meetup.com/"
      [] OTHER -> "invalid"

OptDatetimeOk(s) == s = "None" \/ ParseDatetime(s) # NoDatetime
OptUrlOk(u) == u = "None" \/ StrUrl(u) # "invalid"

\* Event(**raw) succeeds
EventValid(raw) ==
    /\ raw.title # None
    /\ raw.venue # None
    /\ raw.source # "None"
    /\ ParseDatetime(raw.start_time) # NoDatetime
    /\ OptDatetimeOk(raw.end_time)
    /\ OptDatetimeOk(raw.created_at)
    /\ OptDatetimeOk(raw.updated_at)
    /\ raw.category \in EventCategory \cup {"absent"}
    /\ OptUrlOk(raw.url)
    /\ OptUrlOk(raw.image_url)

\* Event(**raw): the validated model (category defaults to OTHER)
Event(raw) ==
    [raw EXCEPT !.category = IF raw.category = "absent" THEN "other" ELSE raw.category]

OptIso(s) == IF s = "None" THEN "None" ELSE IsoFormat(ParseDatetime(s))
OptUrl(u) == IF u = "None" THEN "None" ELSE StrUrl(u)

\* datetime('now') of SQLite at clock second n
SqlText == <<"2026-03-01 00:00:00", "2026-03-01 00:00:01", "2026-03-01 00:00:02",
             "2026-03-01 00:00:03", "2026-03-01 00:00:04", "2026-03-01 00:00:05">>
SqlDatetimeNow(n) == SqlText[n + 1]

(***************************************************************************)
(* Drafts and batch files offered to the ingestion                         *)
(***************************************************************************)
T_JazzNight == <<"J","a","z","z"," ","N","i","g","h","t">>
T_RockShow == <<"R","o","c","k"," ","S","h","o","w">>
T_BlueNote == <<"B","l","u","e"," ","N","o","t","e">>
T_OldSax == <<"o","l","d"," ","s","a","x","o","p","h","o","n","e">>
T_NewTrumpet == <<"n","e","w"," ","t","r","u","m","p","e","t">>
P_20 == <<"$","2","0">>
P_Free == <<"F","r","e","e">>
P_FREEpad == <<" ","F","R","E","E"," ">>
A_Brooklyn == <<"1","2","3"," ","M","a","i","n"," ","S","t",","," ","B","r","o","o","k","l","y","n",","," ","N","Y">>
A_Columbus == <<"1"," ","B","r","o","a","d","w","a","y",","," ","N","e","w"," ","Y","o","r","k",","," ","N","Y"," ","1","0","0","0","4">>
A_Jersey == <<"5"," ","E","l","m"," ","S","t",","," ","H","o","b","o","k","e","n",","," ","N","J">>

DraftA ==
    [title |-> T_JazzNight, description |-> T_OldSax, start_time |-> "2026-02-14T20:00:00",
     end_time |-> "None", venue |-> T_BlueNote, address |-> None, borough |-> "None",
     category |-> "music", price |-> P_20, url |-> "https://dice.fm/event/1",
     source |-> "dice", source_id |-> "d-1", image_url |-> "None",
     created_at |-> "None", updated_at |-> "None"]

\* the same natural key as DraftA, every other field different
DraftB ==
    [title |-> T_JazzNight, description |-> T_NewTrumpet, start_time |-> "2026-02-14 20:00:00",
     end_time |-> "2026-02-14T23:00:00", venue |-> T_BlueNote, address |-> A_Brooklyn,
     borough |-> "Queens", category |-> "absent", price |-> P_Free, url |-> "https://meetup.com",
     source |-> "meetup", source_id |-> "m-7", image_url |-> "https://meetup.com",
     created_at |-> "2026-01-01T00:00:00", updated_at |-> "2026-01-01T00:00:00"]

DraftC ==
    [title |-> T_RockShow, description |-> None, start_time |-> "2026-03-01T19:30:00",
     end_time |-> "None", venue |-> <<>>, address |-> A_Columbus, borough |-> "None",
     category |-> "nightlife", price |-> P_FREEpad, url |-> "None",
     source |-> "dice", source_id |-> "None", image_url |-> "None",
     created_at |-> "None", updated_at |-> "2026-01-01T00:00:00"]

\* Jazz Night again, at another venue: a different natural key
DraftD ==
    [DraftA EXCEPT !.venue = T_RockShow, !.price = None, !.address = A_Jersey,
                   !.description = T_NewTrumpet]

\* rejected by Event(**raw): no venue
DraftBad == [DraftA EXCEPT !.venue = None]

ValidDrafts == {DraftA, DraftB, DraftC, DraftD}
Drafts == ValidDrafts \cup {DraftBad}

\* a file's JSON: not parseable, a list of objects, or one object
Malformed == [kind |-> "malformed"]
ListFile(items) == [kind |-> "list", items |-> items]
ObjectFile(item) == [kind |-> "object", item |-> item]

\* what a batch file may hold: unreadable JSON, one draft object, a list of drafts
FileContents ==
    {Malformed} \cup {ObjectFile(d) : d \in {DraftA, DraftBad}}
    \cup {ListFile(<<>>)} \cup {ListFile(<<d>>) : d \in Drafts}
    \cup {ListFile(<<d, e>>) : d \in {DraftA, DraftB}, e \in ValidDrafts}

F_dice == <<"d","i","c","e","_","2","0","2","6","-","0","2","-","1","4",".","j","s","o","n">>
F_meetup == <<"m","e","e","t","u","p","_","2","0","2","6","-","0","2","-","1","3",".","j","s","o","n">>
FileNames == {F_dice, F_meetup}

(***************************************************************************)
(* src/api/database.py: the events table, the FTS5 index and its triggers  *)
(***************************************************************************)
Letters == {Uppers[i] : i \in 1..Len(Uppers)} \cup {Lowers[i] : i \in 1..Len(Lowers)}
IsTokenChar(c) == c \in Letters \cup Digits

\* the FTS5 default tokenizer (unicode61): maximal alphanumeric runs, case-folded
RECURSIVE TokScan(_, _, _, _)
TokScan(s, i, cur, acc) ==
    LET flushed == IF cur = <<>> THEN acc ELSE acc \cup {cur}
    IN  IF i > Len(s) THEN flushed
        ELSE IF IsTokenChar(s[i])
             THEN TokScan(s, i + 1, Append(cur, LowerChar(s[i])), acc)
             ELSE TokScan(s, i + 1, <<>>, flushed)

Tokens(text) == IF text = None THEN {} ELSE TokScan(text, 1, <<>>, {})

\* the index terms of one row of events_fts(title, description, venue)
FtsTerms(rowid, title, description, venue) ==
    {<<rowid, "title", t>> : t \in Tokens(title)}
    \cup {<<rowid, "description", t>> : t \in Tokens(description)}
    \cup {<<rowid, "venue", t>> : t \in Tokens(venue)}

\* INSERT INTO events_fts(rowid, title, description, venue)
FtsInsert(fts, rowid, title, description, venue) ==
    [docs |-> fts.docs \cup {rowid},
     terms |-> fts.terms \cup FtsTerms(rowid, title, description, venue)]

\* INSERT INTO events_fts(events_fts, rowid, ...) VALUES ('delete', ...)
FtsDelete(fts, rowid, title, description, venue) ==
    [docs |-> fts.docs \ {rowid},
     terms |-> fts.terms \ FtsTerms(rowid, title, description, venue)]

\* trigger events_ai
events_ai(fts, new) == FtsInsert(fts, new.id, new.title, new.description, new.venue)

\* trigger events_ad
events_ad(fts, old) == FtsDelete(fts, old.id, old.title, old.description, old.venue)

\* the update trigger without its 'delete' statement
M_events_au(fts, old, new) ==
    FtsInsert(fts, new.id, new.title, new.description, new.venue)

\* trigger events_au
events_au(fts, old, new) ==
    FtsInsert(FtsDelete(fts, old.id, old.title, old.description, old.venue),
              new.id, new.title, new.description, new.venue)

\* SELECT rowid FROM events_fts WHERE events_fts MATCH q, q one bare word
FtsMatch(fts, q) ==
    UNION {{x[1] : x \in {y \in fts.terms : y[3] \in words}} : words \in {Tokens(q)}}

\* the empty database init_db leaves
EmptyDb == [events |-> {}, fts |-> [docs |-> {}, terms |-> {}], seq |-> 0]

\* a uniqueness constraint that also takes the source into the key
M_SameNaturalKey(r, p) ==
    r.title = p.title /\ r.start_time = p.start_time /\ r.venue = p.venue
    /\ r.source = p.source

\* UNIQUE(title, start_time, venue), the conflict target of the upsert
SameNaturalKey(r, p) ==
    r.title = p.title /\ r.start_time = p.start_time /\ r.venue = p.venue

(***************************************************************************)
(* src/api/ingest.py: the upsert statement                                 *)
(***************************************************************************)
\* borough = extract_borough(event.address)
M_DerivedBorough(event) ==
    IF event.borough # "None" THEN event.borough ELSE extract_borough(event.address)
DerivedBorough(event) == extract_borough(event.address)

\* is_free = check_is_free(event.price)
DerivedIsFree(event) == check_is_free(event.price)

\* the parameter tuple bound to the INSERT (the derived fields, then the tuple)
BindParams(raw) ==
    LET event == Event(raw)
        borough == DerivedBorough(event)
        is_free == DerivedIsFree(event)
        venue == IF event.venue = <<>> THEN <<>> ELSE event.venue
    IN  [title |-> event.title,
         description |-> event.description,
         url |-> OptUrl(event.url),
         venue |-> venue,
         address |-> event.address,
         borough |-> borough,
         start_time |-> IsoFormat(ParseDatetime(event.start_time)),
         end_time |-> OptIso(event.end_time),
         category |-> event.category,
         source |-> event.source,
         source_id |-> event.source_id,
         image_url |-> OptUrl(event.image_url),
         price |-> event.price,
         is_free |-> IF is_free THEN 1 ELSE 0,
         created_at |-> OptIso(event.created_at),
         updated_at |-> OptIso(event.updated_at)]

\* the row INSERT stores: the bound values as they are (an explicit NULL is kept,
\* the column DEFAULT applies only to a column the statement omits)
InsertRow(id, p) ==
    [id |-> id, title |-> p.title, description |-> p.description, url |-> p.url,
     venue |-> p.venue, address |-> p.address, borough |-> p.borough,
     start_time |-> p.start_time, end_time |-> p.end_time, category |-> p.category,
     source |-> p.source, source_id |-> p.source_id, image_url |-> p.image_url,
     price |-> p.price, is_free |-> p.is_free,
     created_at |-> p.created_at, updated_at |-> p.updated_at]

\* the SET list without  price = excluded.price
M_DoUpdateSet_price(old, excluded, n) ==
    [old EXCEPT !.description = excluded.description, !.url = excluded.url,
                !.address = excluded.address, !.borough = excluded.borough,
                !.end_time = excluded.end_time, !.category = excluded.category,
                !.source_id = excluded.source_id, !.image_url = excluded.image_url,
                !.is_free = excluded.is_free, !.updated_at = SqlDatetimeNow(n)]

\* the SET list without  is_free = excluded.is_free
M_DoUpdateSet_is_free(old, excluded, n) ==
    [old EXCEPT !.description = excluded.description, !.url = excluded.url,
                !.address = excluded.address, !.borough = excluded.borough,
                !.end_time = excluded.end_time, !.category = excluded.category,
                !.source_id = excluded.source_id, !.image_url = excluded.image_url,
                !.price = excluded.price, !.updated_at = SqlDatetimeNow(n)]

\* the SET list with  created_at = excluded.created_at  added
M_DoUpdateSet_created_at(old, excluded, n) ==
    [old EXCEPT !.description = excluded.description, !.url = excluded.url,
                !.address = excluded.address, !.borough = excluded.borough,
                !.end_time = excluded.end_time, !.category = excluded.category,
                !.source_id = excluded.source_id, !.image_url = excluded.image_url,
                !.price = excluded.price, !.is_free = excluded.is_free,
                !.created_at = excluded.created_at, !.updated_at = SqlDatetimeNow(n)]

\* the SET list with  source = excluded.source  added
M_DoUpdateSet_source(old, excluded, n) ==
    [old EXCEPT !.description = excluded.description, !.url = excluded.url,
                !.address = excluded.address, !.borough = excluded.borough,
                !.end_time = excluded.end_time, !.category = excluded.category,
                !.source = excluded.source,
                !.source_id = excluded.source_id, !.image_url = excluded.image_url,
                !.price = excluded.price, !.is_free = excluded.is_free,
                !.updated_at = SqlDatetimeNow(n)]

\* ON CONFLICT(title, start_time, venue) DO UPDATE SET ...
DoUpdateSet(old, excluded, n) ==
    [old EXCEPT !.description = excluded.description,
                !.url = excluded.url,
                !.address = excluded.address,
                !.borough = excluded.borough,
                !.end_time = excluded.end_time,
                !.category = excluded.category,
                !.source_id = excluded.source_id,
                !.image_url = excluded.image_url,
                !.price = excluded.price,
                !.is_free = excluded.is_free,
                !.updated_at = SqlDatetimeNow(n)]

\* the rows the INSERT conflicts with
M_Conflicts(rows, p) == {}
Conflicts(rows, p) == {r \in rows : SameNaturalKey(r, p)}

\* db.execute(INSERT ... ON CONFLICT ... DO UPDATE) at clock second n.
\* AUTOINCREMENT takes a fresh rowid for the statement before the conflict is
\* seen, so sqlite_sequence advances on the update path too.
M_Upsert(d, p, n) ==
    LET hit == Conflicts(d.events, p)
        id == d.seq + 1
        new == InsertRow(id, p)
    IN  [events |-> (d.events \ hit) \cup {new},
         fts |-> events_ai(IF hit = {} THEN d.fts ELSE events_ad(d.fts, CHOOSE r \in hit : TRUE),
                           new),
         seq |-> id]
Upsert(d, p, n) ==
    LET hit == Conflicts(d.events, p)
        id == d.seq + 1
    IN  IF hit = {}
        THEN LET new == InsertRow(id, p)
             IN  [events |-> d.events \cup {new},
                  fts |-> events_ai(d.fts, new),
                  seq |-> id]
        ELSE LET old == CHOOSE r \in hit : TRUE
                 new == DoUpdateSet(old, p, n)
             IN  [events |-> (d.events \ {old}) \cup {new},
                  fts |-> events_au(d.fts, old, new),
                  seq |-> id]

(***************************************************************************)
(* src/api/ingest.py: ingest_events, one step per await / loop iteration   *)
(***************************************************************************)
\* the files in descending order of their names
RECURSIVE M_SortedFiles(_)
M_SortedFiles(S) ==
    IF S = {} THEN <<>>
    ELSE LET m == CHOOSE x \in S : \A y \in S \ {x} : StrLess(y, x)
         IN  <<m>> \o M_SortedFiles(S \ {m})

\* sorted(...) of a set of file names
RECURSIVE SortedFiles(_)
SortedFiles(S) ==
    IF S = {} THEN <<>>
    ELSE LET m == CHOOSE x \in S : \A y \in S \ {x} : StrLess(x, y)
         IN  <<m>> \o SortedFiles(S \ {m})

\* events = data if isinstance(data, list) else [data]
EventsOf(data) == IF data.kind = "list" THEN data.items ELSE <<data.item>>

\* history only: the natural key a valid draft stands for
KeyOfRaw(raw) == <<raw.title, IsoFormat(ParseDatetime(raw.start_time)), raw.venue>>

NoStmt == [kind |-> "none", old |-> {}, new |-> {}, raw |-> {}, at |-> 0]
Returned(n) == [kind |-> "returned", count |-> n, error |-> "none"]
Raised(e) == [kind |-> "raised", count |-> 0, error |-> e]

\* an exception leaves ingest_events: the connection closes without a commit,
\* its open transaction is rolled back, nothing is returned
M_Raise(e) ==
    /\ committed' = db
    /\ history' = [history EXCEPT !.saved = history.cur]
    /\ ingPc' = "idle"
    /\ runs' = runs + 1
    /\ ingResult' = Raised(e)
    /\ lastStmt' = NoStmt
    /\ UNCHANGED <<outputDir, dirExists, db, now, jsonFiles, fileIdx, events,
                   rawIdx, count>>
    /\ UNCHANGED <<crawlVars, apiVars>>
Raise(e) ==
    /\ db' = committed
    /\ history' = [history EXCEPT !.cur = history.saved]
    /\ ingPc' = "idle"
    /\ runs' = runs + 1
    /\ ingResult' = Raised(e)
    /\ lastStmt' = NoStmt
    /\ UNCHANGED <<outputDir, dirExists, committed, now, jsonFiles, fileIdx, events,
                   rawIdx, count>>
    /\ UNCHANGED <<crawlVars, apiVars>>

\* if not SCRAPERS_OUTPUT.exists(): return 0
IngestNoDir ==
    /\ ingPc = "idle" /\ runs < MaxRuns
    /\ ~dirExists
    /\ ingResult' = Returned(0)
    /\ runs' = runs + 1
    /\ UNCHANGED <<outputDir, dirExists, db, committed, now, ingPc, jsonFiles, fileIdx,
                   events, rawIdx, count, lastStmt, history>>
    /\ UNCHANGED <<crawlVars, apiVars>>

\* count = 0; connect; the glob is listed and sorted
IngestStart ==
    /\ ingPc = "idle" /\ runs < MaxRuns
    /\ dirExists
    /\ count' = 0
    /\ jsonFiles' = SortedFiles(DOMAIN outputDir)
    /\ fileIdx' = 1
    /\ events' = <<>>
    /\ rawIdx' = 1
    /\ ingPc' = "loop"
    /\ lastStmt' = NoStmt
    /\ UNCHANGED <<outputDir, dirExists, db, committed, now, runs, ingResult, history>>
    /\ UNCHANGED <<crawlVars, apiVars>>

\* open(json_file); json.load(f) succeeds
ReadBatch ==
    /\ ingPc = "loop" /\ fileIdx <= Len(jsonFiles)
    /\ LET data == outputDir[jsonFiles[fileIdx]]
       IN  /\ data.kind # "malformed"
           /\ events' = EventsOf(data)
           /\ rawIdx' = 1
           /\ IF EventsOf(data) = <<>>
              THEN ingPc' = "loop" /\ fileIdx' = fileIdx + 1
              ELSE ingPc' = "drafts" /\ fileIdx' = fileIdx
    /\ UNCHANGED <<outputDir, dirExists, db, committed, now, jsonFiles, count, runs,
                   ingResult, lastStmt, history>>
    /\ UNCHANGED <<crawlVars, apiVars>>

\* json.load(f) raises
ReadBatchFails ==
    /\ ingPc = "loop" /\ fileIdx <= Len(jsonFiles)
    /\ outputDir[jsonFiles[fileIdx]].kind = "malformed"
    /\ Raise("JSONDecodeError")

\* count += 1 once the statement has run, whether it inserted a row or hit the
\* row of its natural key
M_Counted(n, hit) == IF hit = {} THEN n + 1 ELSE n
Counted(n, hit) == n + 1

\* one iteration of  for raw in events  that reaches count += 1
ProcessDraft ==
    /\ ingPc = "drafts" /\ rawIdx <= Len(events)
    /\ LET raw == events[rawIdx]
       IN  /\ EventValid(raw)
           /\ \E p \in {BindParams(raw)} :
              \E after \in {Upsert(db, p, now)} :
              LET hit == Conflicts(db.events, p)
                  row == CHOOSE r \in after.events : SameNaturalKey(r, p)
              IN  /\ db' = after
                  /\ lastStmt' = [kind |-> IF hit = {} THEN "insert" ELSE "update",
                                  old |-> hit, new |-> {row}, raw |-> {raw}, at |-> now]
                  /\ history' = [history EXCEPT !.cur =
                         {h \in history.cur : h.key # KeyOfRaw(raw)}
                         \cup {[key |-> KeyOfRaw(raw), raw |-> raw]}]
    /\ count' = Counted(count, Conflicts(db.events, BindParams(events[rawIdx])))
    /\ IF rawIdx = Len(events)
       THEN ingPc' = "loop" /\ fileIdx' = fileIdx + 1 /\ rawIdx' = rawIdx
       ELSE ingPc' = "drafts" /\ fileIdx' = fileIdx /\ rawIdx' = rawIdx + 1
    /\ UNCHANGED <<outputDir, dirExists, committed, now, jsonFiles, events, runs, ingResult>>
    /\ UNCHANGED <<crawlVars, apiVars>>

\* Event(**raw) raises
ProcessDraftFails ==
    /\ ingPc = "drafts" /\ rawIdx <= Len(events)
    /\ ~EventValid(events[rawIdx])
    /\ Raise("ValidationError")

\* await db.commit(); return count
Commit ==
    /\ ingPc = "loop" /\ fileIdx > Len(jsonFiles)
    /\ committed' = db
    /\ history' = [history EXCEPT !.saved = history.cur]
    /\ ingResult' = Returned(count)
    /\ runs' = runs + 1
    /\ ingPc' = "idle"
    /\ UNCHANGED <<outputDir, dirExists, db, now, jsonFiles, fileIdx, events, rawIdx,
                   count, lastStmt>>
    /\ UNCHANGED <<crawlVars, apiVars>>

\* a second of wall-clock time passes
Tick ==
    /\ now < MaxTime
    /\ now' = now + 1
    /\ UNCHANGED <<outputDir, dirExists, db, committed, ingPc, jsonFiles, fileIdx, events,
                   rawIdx, count, runs, ingResult, lastStmt, history>>
    /\ UNCHANGED <<crawlVars, apiVars>>

\* the output directory as the crawlers left it
Directories ==
    UNION {[names -> FileContents] : names \in SUBSET FileNames}

IngestAtRest ==
    /\ db = EmptyDb
    /\ committed = EmptyDb
    /\ now = 0
    /\ ingPc = "idle"
    /\ jsonFiles = <<>>
    /\ fileIdx = 1
    /\ events = <<>>
    /\ rawIdx = 1
    /\ count = 0
    /\ runs = 0
    /\ ingResult = [kind |-> "none", count |-> 0, error |-> "none"]
    /\ lastStmt = NoStmt
    /\ history = [cur |-> {}, saved |-> {}]

InitIngest ==
    /\ dirExists \in BOOLEAN
    /\ outputDir \in (IF dirExists THEN Directories ELSE {<<>>})
    /\ IngestAtRest

(***************************************************************************)
(* src/scrapers/base.py and src/scrapers/sources: the registry             *)
(***************************************************************************)
\* _registry, in the order sources/__init__.py imports (and so registers) them
Registry == <<
    "cityguideny",
    "dice",
    "donyc",
    "edmtrain",
    "eventbrite",
    "garysguide",
    "meetup",
    "nyc_arts",
    "nyc_parks",
    "ohmyrockness",
    "resident_advisor",
    "the_skint",
    "ticketmaster" >>
RegistryNames == {Registry[i] : i \in 1..Len(Registry)}

\* the crawler's name as text, for its output path
NameText(name) ==
    CASE name = "cityguideny" -> <<"c","i","t","y","g","u","i","d","e","n","y">>
      [] name = "dice" -> <<"d","i","c","e">>
      [] name = "donyc" -> <<"d","o","n","y","c">>
      [] name = "edmtrain" -> <<"e","d","m","t","r","a","i","n">>
      [] name = "eventbrite" -> <<"e","v","e","n","t","b","r","i","t","e">>
      [] name = "garysguide" -> <<"g","a","r","y","s","g","u","i","d","e">>
      [] name = "meetup" -> <<"m","e","e","t","u","p">>
      [] name = "nyc_arts" -> <<"n","y","c","_","a","r","t","s">>
      [] name = "nyc_parks" -> <<"n","y","c","_","p","a","r","k","s">>
      [] name = "ohmyrockness" -> <<"o","h","m","y","r","o","c","k","n","e","s","s">>
      [] name = "resident_advisor" -> <<"r","e","s","i","d","e","n","t","_","a","d","v","i","s","o","r">>
      [] name = "the_skint" -> <<"t","h","e","_","s","k","i","n","t">>
      [] name = "ticketmaster" -> <<"t","i","c","k","e","t","m","a","s","t","e","r">>

\* What each crawler class sets and how its scrape() uses the network.
\* rate_limit is in quarter seconds; needsKey: scrape() raises when its API key is
\* not in the environment; via: BaseScraper.fetch or one client.post of its own;
\* fetches: one request, two in a row, or a page loop; onFetchError: what scrape()
\* does with the RuntimeError of fetch; onBadItem: whether the item loop catches
\* the error of an item it cannot turn into an Event, or lets it leave scrape().
Profile(name) ==
    CASE name = "cityguideny" ->
           [rate_limit |-> 4, needsKey |-> FALSE, via |-> "fetch", fetches |-> "one", onFetchError |-> "propagate",
            onBadItem |-> "skip"]
      [] name = "dice" ->
           [rate_limit |-> 8, needsKey |-> FALSE, via |-> "fetch", fetches |-> "one", onFetchError |-> "propagate",
            onBadItem |-> "skip"]
      [] name = "donyc" ->
           [rate_limit |-> 4, needsKey |-> FALSE, via |-> "fetch", fetches |-> "one", onFetchError |-> "propagate",
            onBadItem |-> "skip"]
      [] name = "edmtrain" ->
           [rate_limit |-> 4, needsKey |-> TRUE, via |-> "fetch", fetches |-> "one", onFetchError |-> "propagate",
            onBadItem |-> "raise"]
      [] name = "eventbrite" ->
           [rate_limit |-> 8, needsKey |-> FALSE, via |-> "fetch", fetches |-> "one", onFetchError |-> "propagate",
            onBadItem |-> "skip"]
      [] name = "garysguide" ->
           [rate_limit |-> 4, needsKey |-> FALSE, via |-> "fetch", fetches |-> "one", onFetchError |-> "propagate",
            onBadItem |-> "skip"]
      [] name = "meetup" ->
           [rate_limit |-> 8, needsKey |-> FALSE, via |-> "fetch", fetches |-> "one", onFetchError |-> "propagate",
            onBadItem |-> "skip"]
      [] name = "nyc_arts" ->
           [rate_limit |-> 4, needsKey |-> FALSE, via |-> "fetch", fetches |-> "paged", onFetchError |-> "swallow",
            onBadItem |-> "skip"]
      [] name = "nyc_parks" ->
           [rate_limit |-> 2, needsKey |-> FALSE, via |-> "fetch", fetches |-> "paged", onFetchError |-> "propagate",
            onBadItem |-> "raise"]
      [] name = "ohmyrockness" ->
           [rate_limit |-> 4, needsKey |-> FALSE, via |-> "fetch", fetches |-> "one", onFetchError |-> "swallow",
            onBadItem |-> "skip"]
      [] name = "resident_advisor" ->
           [rate_limit |-> 8, needsKey |-> FALSE, via |-> "post", fetches |-> "one", onFetchError |-> "propagate",
            onBadItem |-> "skip"]
      [] name = "the_skint" ->
           [rate_limit |-> 8, needsKey |-> FALSE, via |-> "fetch", fetches |-> "two", onFetchError |-> "propagate",
            onBadItem |-> "raise"]
      [] name = "ticketmaster" ->
           [rate_limit |-> 1, needsKey |-> TRUE, via |-> "fetch", fetches |-> "paged", onFetchError |-> "propagate",
            onBadItem |-> "raise"]

\* max_retries and retry_backoff (quarter seconds) of BaseScraper; no crawler overrides them
max_retries == 3
retry_backoff == 4

\* _USER_AGENTS
USER_AGENTS == {"Chrome/Windows", "Safari/Mac", "Firefox/Linux", "Firefox/Windows"}

\* how long a response may take to arrive, in quarter seconds
Delays == {0, 1, 8}

DateText == <<<<"2","0","2","6","-","0","2","-","1","4">>, <<"2","0","2","6","-","0","2","-","1","5">>>>

\* a path made of the date alone
M_OutputPath(name, day) == DateText[day] \o <<".","j","s","o","n">>

\* _output_path(): OUTPUT_DIR / f"{self.name}_{date.today().isoformat()}.json"
OutputPath(name, day) == NameText(name) \o <<"_">> \o DateText[day] \o <<".","j","s","o","n">>

PageId == <<"p1", "p2", "p3", "p4">>

\* the Event a crawler builds from the one item of a listing page, as
\* model_dump(mode="json") writes it
ItemOf(name, page) == [DraftA EXCEPT !.source = name, !.source_id = PageId[page]]

\* the arguments run_all is called with: None (every registered crawler) or names
SourceArgs ==
    {<<>>, <<"dice">>, <<"edmtrain", "dice">>, <<"dice", "nyc_arts">>,
     <<"ohmyrockness", "the_skint">>, <<"resident_advisor", "ticketmaster">>,
     <<"nyc_parks", "dice">>, <<"dice", "songkick">>, <<"nyc_parks", "nyc_parks">>}

(***************************************************************************)
(* BaseScraper: an instance, its clock and its client                      *)
(***************************************************************************)
\* __init__: no client, _last_request = 0.0; run() is about to call scrape().
\* Kept beside the instance's own fields, for the properties: tries, outcome and
\* cause (the attempts of the current request and how it ended), waits (the
\* backoff sleeps of the current fetch call), sentAt (when the instance sent its
\* last request, -1: none yet), gap (while a request is in flight, its
\* distance to the request before it, -1: there is none) and sent (while a
\* request is in flight, the User-Agent header it carries).
NewScraper(name) ==
    [name |-> name, client |-> "None", ua |-> "None", last_request |-> 0,
     pc |-> "scrape", page |-> 1, got |-> <<>>, attempt |-> 0, last_exc |-> "None",
     tries |-> <<>>, outcome |-> "none", cause |-> "None", exc |-> "None",
     waits |-> <<>>, sentAt |-> -1, gap |-> -1, sent |-> "None"]

Max(a, b) == IF a >= b THEN a ELSE b

\* how far the origin of time slides when d quarter seconds pass
Slide(d) == IF clock + d > Horizon THEN clock + d - Horizon ELSE 0

\* d quarter seconds pass: the loop time advances; every instance keeps its
\* distance to it, up to Horizon
TimePasses(d, live) ==
    /\ clock' = clock + d - Slide(d)
    /\ scrapers' = [j \in DOMAIN live |->
                       [live[j] EXCEPT !.last_request = Max(0, @ - Slide(d)),
                                       !.sentAt = IF @ = -1 THEN -1 ELSE Max(0, @ - Slide(d)),
                                       !.gap = -1, !.sent = "None"]]

\* a client made without headers=: httpx sends its own default User-Agent
M_StartFetch(s, ua) ==
    [s EXCEPT !.client = "open",
              !.ua = IF s.client = "open" THEN s.ua ELSE "python-httpx",
              !.attempt = 1, !.last_exc = "None",
              !.tries = <<>>, !.outcome = "pending", !.cause = "None",
              !.waits = <<>>, !.pc = "wait"]

\* _ensure_client(), then the first iteration of fetch's loop is entered
StartFetch(s, ua) ==
    [s EXCEPT !.client = "open",
              !.ua = IF s.client = "open" THEN s.ua ELSE ua,
              !.attempt = 1, !.last_exc = "None",
              !.tries = <<>>, !.outcome = "pending", !.cause = "None",
              !.waits = <<>>, !.pc = "wait"]

\* the sleep of _rate_limit_wait at loop time t
M_RateLimitSleep(s, t) == 0
RateLimitSleep(s, t) ==
    LET elapsed == t - s.last_request
        rate_limit == Profile(s.name).rate_limit
    IN  IF elapsed < rate_limit THEN rate_limit - elapsed ELSE 0

\* the except branch of fetch goes on to sleep and retry
M_RetriesLeft(attempt) == attempt <= max_retries
RetriesLeft(attempt) == attempt < max_retries

\* wait = self.retry_backoff * attempt
M_BackoffWait(attempt) == retry_backoff
BackoffWait(attempt) == retry_backoff * attempt

\* what scrape() does once a request has been answered: the page's event is
\* collected; more says whether the page leads to another request, bad whether
\* the page also has an item that cannot be turned into an Event (a bad date,
\* no venue, a category outside EventCategory)
AfterResponse(s, more, bad) ==
    LET kind == Profile(s.name).fetches
        listing == ~(kind = "two" /\ s.page = 1)
        item == IF listing THEN <<ItemOf(s.name, s.page)>> ELSE <<>>
        again == /\ more
                 /\ \/ kind = "two" /\ s.page = 1
                    \/ kind = "paged" /\ s.page < MaxPages
    IN  IF bad /\ listing /\ Profile(s.name).onBadItem = "raise"
        THEN [s EXCEPT !.pc = "finally", !.exc = "ValidationError"]
        ELSE IF again
        THEN [StartFetch(s, s.ua) EXCEPT !.got = s.got \o item, !.page = s.page + 1]
        ELSE [s EXCEPT !.got = s.got \o item, !.pc = "finally"]

\* fetch raised RuntimeError inside scrape()
AfterFetchError(s) ==
    IF Profile(s.name).onFetchError = "swallow"
    THEN [s EXCEPT !.pc = "finally",
                   !.got = IF s.name = "ohmyrockness" THEN <<>> ELSE s.got]
    ELSE [s EXCEPT !.pc = "finally", !.exc = "RuntimeError"]

\* resident_advisor's scrape(): _ensure_client(), then its own single request
StartPost(s, ua) ==
    [s EXCEPT !.client = "open",
              !.ua = IF s.client = "open" THEN s.ua ELSE ua,
              !.attempt = 1, !.tries = <<>>, !.pc = "wait"]

(***************************************************************************)
(* run_all                                                                 *)
(***************************************************************************)
RaReturned(evs) == [kind |-> "returned", events |-> evs, error |-> "None"]
RaRaised(e) == [kind |-> "raised", events |-> <<>>, error |-> e]

\* run_all(sources): names = list(sources) if sources else list(registry)
RunAllStart ==
    /\ raPc = "idle"
    /\ \E sources \in SourceArgs :
          raNames' = IF sources # <<>> THEN sources ELSE Registry
    /\ raIdx' = 1
    /\ all_events' = <<>>
    /\ raPc' = "loop"
    /\ UNCHANGED <<clock, today, apiKeys, uaPool, raResult, scrapers, runLog>>
    /\ UNCHANGED <<ingestVars, apiVars, dirVars>>

\* scraper = get_scraper(name)(); its run() is awaited
RunAllNext ==
    /\ raPc = "loop" /\ raIdx <= Len(raNames)
    /\ raNames[raIdx] \in RegistryNames
    /\ scrapers' = (raIdx :> NewScraper(raNames[raIdx]))
    /\ raPc' = "running"
    /\ UNCHANGED <<clock, today, apiKeys, uaPool, raNames, raIdx, all_events, raResult, runLog>>
    /\ UNCHANGED <<ingestVars, apiVars, dirVars>>

\* get_scraper(name) raises KeyError
RunAllUnknown ==
    /\ raPc = "loop" /\ raIdx <= Len(raNames)
    /\ raNames[raIdx] \notin RegistryNames
    /\ raResult' = RaRaised("KeyError")
    /\ raPc' = "done"
    /\ UNCHANGED <<clock, today, apiKeys, uaPool, raNames, raIdx, all_events, scrapers, runLog>>
    /\ UNCHANGED <<ingestVars, apiVars, dirVars>>

\* the loop is over: return all_events
RunAllReturn ==
    /\ raPc = "loop" /\ raIdx > Len(raNames)
    /\ raResult' = RaReturned(all_events)
    /\ raPc' = "done"
    /\ UNCHANGED <<clock, today, apiKeys, uaPool, raNames, raIdx, all_events, scrapers, runLog>>
    /\ UNCHANGED <<ingestVars, apiVars, dirVars>>

(***************************************************************************)
(* scrape() and fetch(), one step per suspension point                     *)
(***************************************************************************)
crawlRest == <<today, apiKeys, uaPool, raPc, raNames, raIdx, all_events, raResult, runLog>>

\* scrape() of a crawler that needs an API key and finds none
ScrapeMissingKey(i) ==
    LET s == scrapers[i]
    IN  /\ s.pc = "scrape"
        /\ Profile(s.name).needsKey /\ s.name \notin apiKeys
        /\ scrapers' = [scrapers EXCEPT ![i] = [s EXCEPT !.pc = "finally", !.exc = "RuntimeError"]]
        /\ UNCHANGED <<clock, crawlRest, ingestVars, apiVars, dirVars>>

\* scrape() reaches its first request
M_ScrapeBegin(i) ==
    LET s == scrapers[i]
    IN  /\ s.pc = "scrape"
        /\ \E ua \in uaPool :
              scrapers' = [scrapers EXCEPT ![i] =
                  IF Profile(s.name).via = "fetch" THEN StartFetch(s, ua) ELSE StartPost(s, ua)]
        /\ UNCHANGED <<clock, crawlRest, ingestVars, apiVars, dirVars>>
ScrapeBegin(i) ==
    LET s == scrapers[i]
    IN  /\ s.pc = "scrape"
        /\ Profile(s.name).needsKey => s.name \in apiKeys
        /\ \E ua \in uaPool :
              scrapers' = [scrapers EXCEPT ![i] =
                  IF Profile(s.name).via = "fetch" THEN StartFetch(s, ua) ELSE StartPost(s, ua)]
        /\ UNCHANGED <<clock, crawlRest, ingestVars, apiVars, dirVars>>

\* the User-Agent a request goes out with: fetch's client.get sends the
\* client's header; resident_advisor's client.post passes a header of its own,
\* random.choice(_USER_AGENTS)
HeaderSent(s, pool) == IF Profile(s.name).via = "post" THEN pool ELSE {s.ua}

\* _last_request kept on the class: the stamp lands on every instance
M_RateLimitWait(i) ==
    LET s == scrapers[i]
        d == RateLimitSleep(s, clock)
    IN  /\ s.pc = "wait"
        /\ clock' = clock + d - Slide(d)
        /\ \E header \in HeaderSent(s, uaPool) :
             scrapers' = [j \in DOMAIN scrapers |->
               IF j = i
               THEN [s EXCEPT !.last_request = clock + d - Slide(d),
                              !.sentAt = clock + d - Slide(d),
                              !.gap = IF s.sentAt = -1 THEN -1
                                      ELSE clock + d - Slide(d) - Max(0, s.sentAt - Slide(d)),
                              !.sent = header,
                              !.pc = "get"]
               ELSE [scrapers[j] EXCEPT
                        !.last_request = clock + d - Slide(d),
                        !.sentAt = IF @ = -1 THEN -1 ELSE Max(0, @ - Slide(d))]]
        /\ UNCHANGED <<crawlRest, ingestVars, apiVars, dirVars>>

\* _rate_limit_wait(): sleep up to the rate limit, then stamp _last_request; the
\* request is sent
RateLimitWait(i) ==
    LET s == scrapers[i]
        d == RateLimitSleep(s, clock)
    IN  /\ s.pc = "wait"
        /\ clock' = clock + d - Slide(d)
        /\ \E header \in HeaderSent(s, uaPool) :
             scrapers' = [j \in DOMAIN scrapers |->
               IF j = i
               THEN [s EXCEPT !.last_request = clock + d - Slide(d),
                              !.sentAt = clock + d - Slide(d),
                              !.gap = IF s.sentAt = -1 THEN -1
                                      ELSE clock + d - Slide(d) - Max(0, s.sentAt - Slide(d)),
                              !.sent = header,
                              !.pc = "get"]
               ELSE [scrapers[j] EXCEPT
                        !.last_request = Max(0, @ - Slide(d)),
                        !.sentAt = IF @ = -1 THEN -1 ELSE Max(0, @ - Slide(d))]]
        /\ UNCHANGED <<crawlRest, ingestVars, apiVars, dirVars>>

\* the request is answered with a 2xx: fetch returns resp, scrape() goes on
GetOk(i) ==
    LET s == scrapers[i]
    IN  /\ s.pc = "get"
        /\ \E d \in Delays : \E more \in BOOLEAN : \E bad \in BOOLEAN :
              LET t == [s EXCEPT !.tries = IF s.outcome = "pending" THEN Append(@, "ok") ELSE @,
                                 !.outcome = IF s.outcome = "pending" THEN "returned" ELSE @]
              IN  TimePasses(d, [scrapers EXCEPT ![i] = AfterResponse(t, more, bad)])
        /\ UNCHANGED <<crawlRest, ingestVars, apiVars, dirVars>>

\* fetch: the request fails with HTTPStatusError or TransportError
GetFails(i) ==
    LET s == scrapers[i]
    IN  /\ s.pc = "get" /\ Profile(s.name).via = "fetch"
        /\ \E d \in Delays : \E e \in {"HTTPStatusError", "TransportError"} :
              LET t == [s EXCEPT !.tries = Append(@, e), !.last_exc = e]
              IN  TimePasses(d, [scrapers EXCEPT ![i] =
                      IF RetriesLeft(s.attempt)
                      THEN [t EXCEPT !.pc = "backoff"]
                      ELSE AfterFetchError([t EXCEPT !.outcome = "terminal", !.cause = t.last_exc])])
        /\ UNCHANGED <<crawlRest, ingestVars, apiVars, dirVars>>

\* fetch with  except Exception:  any error of an attempt is retried
M_GetRaisesOther(i) ==
    LET s == scrapers[i]
    IN  /\ s.pc = "get" /\ Profile(s.name).via = "fetch"
        /\ \E d \in Delays :
              LET t == [s EXCEPT !.tries = Append(@, "Other"), !.last_exc = "Other"]
              IN  TimePasses(d, [scrapers EXCEPT ![i] =
                      IF RetriesLeft(s.attempt)
                      THEN [t EXCEPT !.pc = "backoff"]
                      ELSE AfterFetchError([t EXCEPT !.outcome = "terminal", !.cause = t.last_exc])])
        /\ UNCHANGED <<crawlRest, ingestVars, apiVars, dirVars>>

\* fetch: the request raises something else, which no except clause of fetch takes
GetRaisesOther(i) ==
    LET s == scrapers[i]
    IN  /\ s.pc = "get" /\ Profile(s.name).via = "fetch"
        /\ \E d \in Delays :
              TimePasses(d, [scrapers EXCEPT ![i] =
                  [s EXCEPT !.tries = Append(@, "Other"), !.outcome = "error",
                            !.pc = "finally", !.exc = "Other"]])
        /\ UNCHANGED <<crawlRest, ingestVars, apiVars, dirVars>>

\* resident_advisor: its request fails; any exception becomes a RuntimeError at once
PostFails(i) ==
    LET s == scrapers[i]
    IN  /\ s.pc = "get" /\ Profile(s.name).via = "post"
        /\ \E d \in Delays : \E e \in {"HTTPStatusError", "TransportError"} :
              TimePasses(d, [scrapers EXCEPT ![i] =
                  [s EXCEPT !.tries = Append(@, e), !.pc = "finally", !.exc = "RuntimeError"]])
        /\ UNCHANGED <<crawlRest, ingestVars, apiVars, dirVars>>

\* fetch: sleep retry_backoff * attempt, take a new User-Agent, next attempt
Backoff(i) ==
    LET s == scrapers[i]
    IN  /\ s.pc = "backoff"
        /\ \E ua \in uaPool : \E wait \in {BackoffWait(s.attempt)} :
              TimePasses(wait, [scrapers EXCEPT ![i] =
                  [s EXCEPT !.ua = ua, !.attempt = s.attempt + 1,
                            !.waits = Append(@, wait), !.pc = "wait"]])
        /\ UNCHANGED <<crawlRest, ingestVars, apiVars, dirVars>>

(***************************************************************************)
(* run()                                                                   *)
(***************************************************************************)
\* finally: close the client if there is an open one
M_RunFinally_writes(i) ==
    LET s == scrapers[i]
    IN  /\ s.pc = "finally"
        /\ scrapers' = [scrapers EXCEPT ![i] =
               [s EXCEPT !.client = IF s.client = "open" THEN "closed" ELSE s.client,
                         !.pc = "write"]]
        /\ UNCHANGED <<clock, crawlRest, ingestVars, apiVars, dirVars>>
M_RunFinally_keepsOpen(i) ==
    LET s == scrapers[i]
    IN  /\ s.pc = "finally"
        /\ scrapers' = [scrapers EXCEPT ![i] =
               [s EXCEPT !.client = IF s.client = "open" /\ s.exc = "None" THEN "closed" ELSE s.client,
                         !.pc = IF s.exc = "None" THEN "write" ELSE "raise"]]
        /\ UNCHANGED <<clock, crawlRest, ingestVars, apiVars, dirVars>>
RunFinally(i) ==
    LET s == scrapers[i]
    IN  /\ s.pc = "finally"
        /\ scrapers' = [scrapers EXCEPT ![i] =
               [s EXCEPT !.client = IF s.client = "open" THEN "closed" ELSE s.client,
                         !.pc = IF s.exc = "None" THEN "write" ELSE "raise"]]
        /\ UNCHANGED <<clock, crawlRest, ingestVars, apiVars, dirVars>>

\* scrape() returned: the batch file is written, run() returns the events and
\* run_all extends all_events
RunWrites(i) ==
    LET s == scrapers[i]
    IN  /\ s.pc = "write"
        /\ dirExists' = TRUE
        /\ outputDir' = [f \in DOMAIN outputDir \cup {OutputPath(s.name, today)} |->
                            IF f = OutputPath(s.name, today) THEN ListFile(s.got)
                            ELSE outputDir[f]]
        /\ scrapers' = [scrapers EXCEPT ![i] = [s EXCEPT !.pc = "returned"]]
        /\ all_events' = all_events \o s.got
        /\ raIdx' = raIdx + 1
        /\ raPc' = "loop"
        /\ runLog' = Append(runLog, [name |-> s.name, ok |-> TRUE])
        /\ UNCHANGED <<clock, today, apiKeys, uaPool, raNames, raResult, ingestVars, apiVars>>

\* scrape() raised: run() raises, and run_all with it
RunRaises(i) ==
    LET s == scrapers[i]
    IN  /\ s.pc = "raise"
        /\ scrapers' = [scrapers EXCEPT ![i] = [s EXCEPT !.pc = "raised"]]
        /\ raResult' = RaRaised(s.exc)
        /\ raPc' = "done"
        /\ runLog' = Append(runLog, [name |-> s.name, ok |-> FALSE])
        /\ UNCHANGED <<clock, today, apiKeys, uaPool, raNames, raIdx, all_events, ingestVars, apiVars, dirVars>>

(***************************************************************************)
(* src/api/main.py: the statements of the query endpoints                  *)
(***************************************************************************)
\* get_db(): a connection of its own, which reads the committed database
M_ReaderView == db
ReaderView == committed

\* Python truth of an optional text parameter: None and the empty text are false
Given(text) == text # None /\ text # <<>>
GivenStr(s) == s # "None" /\ s # ""

\* FTS5 reads the MATCH argument as a query expression. Of the arguments offered
\* here, bare words separated by blanks are the AND of the words; a text with
\* no word or with a character such as - or ' is an error of the statement.
FtsSyntaxOk(q) ==
    /\ Tokens(q) # {}
    /\ \A i \in 1..Len(q) : IsTokenChar(q[i]) \/ q[i] = " "

\* SELECT rowid FROM events_fts WHERE events_fts MATCH q, q bare words
FtsAll(fts, q) ==
    UNION {{d \in fts.docs : \A w \in words : d \in FtsMatch(fts, w)} : words \in {Tokens(q)}}

\* date(e.start_time): the date part of the stored ISO text
DateOf(start_time) == SubSeq(ParseDatetime(start_time), 1, 3)

\* the order of equally shaped date and datetime texts
TupleLess(x, y) ==
    \E i \in 1..Len(x) : x[i] < y[i] /\ \A j \in 1..(i - 1) : x[j] = y[j]
DateLeq(a, b) == a = b \/ TupleLess(a, b)

\* a borough condition that also lets a NULL borough through
M_Where(s, f, e) ==
    /\ Given(f.q) => e.id \in FtsAll(s.fts, f.q)
    /\ GivenStr(f.category) => e.category = f.category
    /\ GivenStr(f.borough) => (e.borough = f.borough \/ e.borough = "None")
    /\ f.date_from # <<>> => DateLeq(f.date_from, DateOf(e.start_time))
    /\ f.date_to # <<>> => DateLeq(DateOf(e.start_time), f.date_to)
    /\ f.is_free # "None" => e.is_free = (IF f.is_free = "true" THEN 1 ELSE 0)
    /\ GivenStr(f.source) => e.source = f.source

\* the WHERE clause list_events builds: one condition per parameter given,
\* joined by AND. A NULL column equals no parameter.
Where(s, f, e) ==
    /\ Given(f.q) => e.id \in FtsAll(s.fts, f.q)
    /\ GivenStr(f.category) => e.category = f.category
    /\ GivenStr(f.borough) => e.borough = f.borough
    /\ f.date_from # <<>> => DateLeq(f.date_from, DateOf(e.start_time))
    /\ f.date_to # <<>> => DateLeq(DateOf(e.start_time), f.date_to)
    /\ f.is_free # "None" => e.is_free = (IF f.is_free = "true" THEN 1 ELSE 0)
    /\ GivenStr(f.source) => e.source = f.source

\* SELECT COUNT(*) FROM events e WHERE ...
SelectCount(s, f) == Cardinality({e \in s.events : Where(s, f, e)})

\* ORDER BY e.start_time ASC: rows of equal start_time come out in rowid order
RowBefore(a, b) ==
    \E x \in {ParseDatetime(a.start_time)} : \E y \in {ParseDatetime(b.start_time)} :
        TupleLess(x, y) \/ (x = y /\ a.id < b.id)

RECURSIVE OrderByStartTime(_)
OrderByStartTime(rows) ==
    IF rows = {} THEN <<>>
    ELSE LET first == CHOOSE x \in rows : \A y \in rows \ {x} : RowBefore(x, y)
         IN  <<first>> \o OrderByStartTime(rows \ {first})

\* offset = (page - 1) * per_page
M_Offset(page, per_page) == page * per_page
Offset(page, per_page) == (page - 1) * per_page

\* SELECT e.* FROM events e WHERE ... ORDER BY e.start_time ASC LIMIT ? OFFSET ?
SelectPage(s, f, limit, offset) ==
    LET sorted == OrderByStartTime({e \in s.events : Where(s, f, e)})
        last == IF offset + limit < Len(sorted) THEN offset + limit ELSE Len(sorted)
    IN  IF offset >= Len(sorted) THEN <<>> ELSE SubSeq(sorted, offset + 1, last)

\* max(1, (total + per_page - 1) // per_page)
M_Pages(total, per_page) == total \div per_page + 1
Pages(total, per_page) == Max(1, (total + per_page - 1) \div per_page)

\* page: int = Query(1, ge=1), per_page: int = Query(20, ge=1, le=100)
M_PageParamsOk(page, per_page) == TRUE
PageParamsOk(page, per_page) == page >= 1 /\ per_page >= 1 /\ per_page <= 100

\* SELECT * FROM events WHERE id = ?
SelectById(s, event_id) == {e \in s.events : e.id = event_id}

\* the orders in which rows can come out under ORDER BY count DESC
DescByCount(groups) ==
    {o \in [1..Cardinality(groups) -> groups] :
        /\ \A g \in groups : \E i \in DOMAIN o : o[i] = g
        /\ \A i \in DOMAIN o : \A j \in DOMAIN o : i < j => o[i].count >= o[j].count}

\* SELECT source, COUNT(*) as count FROM events GROUP BY source
GroupBySource(s) ==
    {[source |-> x, count |-> Cardinality({e \in s.events : e.source = x})] :
        x \in {e.source : e \in s.events}}

\* SELECT category, COUNT(*) as count FROM events WHERE category IS NOT NULL GROUP BY category
GroupByCategory(s) ==
    {[category |-> x, count |-> Cardinality({e \in s.events : e.category = x})] :
        x \in {e.category : e \in s.events} \ {"None"}}

\* COUNT(DISTINCT col) ... WHERE col IS NOT NULL, over the values of a column
M_CountDistinct(values) == Cardinality(values)
CountDistinct(values) == Cardinality(values \ {"None"})

\* the five statements of get_stats, in the order it runs them
StatsKeys == <<"total_events", "total_sources", "total_categories", "free_events",
               "boroughs_covered">>
StatsStmt(k, s) ==
    CASE k = 1 -> Cardinality(s.events)
      [] k = 2 -> CountDistinct({e.source : e \in s.events})
      [] k = 3 -> CountDistinct({e.category : e \in s.events})
      [] k = 4 -> Cardinality({e \in s.events : e.is_free = 1})
      [] k = 5 -> CountDistinct({e.borough : e \in s.events})

\* finally: await db.close() of a connection that ran only SELECT statements:
\* there is nothing to commit and nothing to roll back
M_CloseReader(s) == EmptyDb
CloseReader(s) == s

(***************************************************************************)
(* src/api/main.py: the handlers, one step per statement they await        *)
(***************************************************************************)
\* what the handlers do not touch of the ingestion's state
ingestRest == <<db, now, ingPc, jsonFiles, fileIdx, events, rawIdx, count, runs,
                ingResult, lastStmt, history>>

\* no request is being served. Of a request: op and args, its kind ("pending"
\* between two statements, then "ok" or "error"), the HTTP status, the body so
\* far, stmts (how many statements it has run) and, for the properties, saw:
\* the committed database at the moment of each statement
NoResp == [op |-> "none", kind |-> "none", status |-> 0, args |-> <<>>, body |-> <<>>,
           stmts |-> 0, saw |-> <<>>]

NoFilter == [q |-> None, category |-> "None", borough |-> "None", date_from |-> <<>>,
             date_to |-> <<>>, is_free |-> "None", source |-> "None"]

Q_jazz == <<"j","a","z","z">>
Q_NewTrumpet == <<"n","e","w"," ","T","R","U","M","P","E","T">>
Q_rock_show == <<"r","o","c","k","-","s","h","o","w">>

\* the filter parameters the list requests come with
FilterArgs ==
    {NoFilter,
     [NoFilter EXCEPT !.q = <<>>, !.category = ""],
     [NoFilter EXCEPT !.q = Q_jazz],
     [NoFilter EXCEPT !.q = Q_NewTrumpet],
     [NoFilter EXCEPT !.q = Q_rock_show],
     [NoFilter EXCEPT !.category = "music"],
     [NoFilter EXCEPT !.borough = "Brooklyn"],
     [NoFilter EXCEPT !.borough = "Queens"],
     [NoFilter EXCEPT !.date_from = <<2026, 2, 15>>],
     [NoFilter EXCEPT !.date_to = <<2026, 2, 14>>],
     [NoFilter EXCEPT !.is_free = "true"],
     [NoFilter EXCEPT !.is_free = "false"],
     [NoFilter EXCEPT !.source = "dice"],
     [NoFilter EXCEPT !.q = Q_jazz, !.is_free = "false", !.source = "dice"],
     [NoFilter EXCEPT !.borough = "Manhattan", !.category = "nightlife", !.is_free = "true"],
     [NoFilter EXCEPT !.date_from = <<2026, 2, 14>>, !.date_to = <<2026, 2, 14>>,
                      !.category = "music"]}
PageArgs == {0, 1, 2, 3, 4}
PerPageArgs == {0, 1, 2, 100, 101}

\* list_events up to its first statement: FastAPI validates page and per_page
\* before the handler is called (422); then get_db() and SELECT COUNT(*), which
\* fails on a MATCH argument FTS5 cannot read (the error leaves the handler
\* through finally: db.close(), a 500)
ListBegin ==
    /\ resp.kind = "none"
    /\ \E f \in FilterArgs : \E page \in PageArgs : \E per_page \in PerPageArgs :
         LET args == [f |-> f, page |-> page, per_page |-> per_page]
         IN  IF ~PageParamsOk(page, per_page)
             THEN /\ resp' = [NoResp EXCEPT !.op = "list", !.kind = "error", !.status = 422,
                                            !.args = args]
                  /\ committed' = committed
             ELSE IF Given(f.q) /\ ~FtsSyntaxOk(f.q)
             THEN /\ resp' = [NoResp EXCEPT !.op = "list", !.kind = "error", !.status = 500,
                                            !.args = args, !.stmts = 1, !.saw = <<committed>>]
                  /\ committed' = CloseReader(committed)
             ELSE /\ resp' = [NoResp EXCEPT !.op = "list", !.kind = "pending", !.args = args,
                                            !.body = [total |-> SelectCount(ReaderView, f)],
                                            !.stmts = 1, !.saw = <<committed>>]
                  /\ committed' = committed
    /\ UNCHANGED <<ingestRest, dirVars, crawlVars, rival>>

\* list_events from its second statement to the response and db.close()
ListPage ==
    /\ resp.op = "list" /\ resp.kind = "pending"
    /\ LET a == resp.args
           rows == SelectPage(ReaderView, a.f, a.per_page, Offset(a.page, a.per_page))
       IN  resp' = [resp EXCEPT !.kind = "ok", !.status = 200,
                       !.body = [events |-> rows, total |-> resp.body.total,
                                 page |-> a.page, per_page |-> a.per_page,
                                 pages |-> Pages(resp.body.total, a.per_page)],
                       !.stmts = 2, !.saw = Append(@, committed)]
    /\ committed' = CloseReader(committed)
    /\ UNCHANGED <<ingestRest, dirVars, crawlVars, rival>>

\* get_event: the row, or HTTPException(404)
GetEvent ==
    /\ resp.kind = "none"
    /\ \E event_id \in {0} \cup {e.id : e \in db.events} \cup {e.id : e \in committed.events} :
         LET row == SelectById(ReaderView, event_id)
         IN  resp' = [NoResp EXCEPT !.op = "get", !.args = [event_id |-> event_id],
                         !.kind = IF row = {} THEN "error" ELSE "ok",
                         !.status = IF row = {} THEN 404 ELSE 200,
                         !.body = row, !.stmts = 1, !.saw = <<committed>>]
    /\ committed' = CloseReader(committed)
    /\ UNCHANGED <<ingestRest, dirVars, crawlVars, rival>>

\* list_sources
ListSources ==
    /\ resp.kind = "none"
    /\ \E rows \in DescByCount(GroupBySource(ReaderView)) :
         resp' = [NoResp EXCEPT !.op = "sources", !.kind = "ok", !.status = 200,
                     !.body = rows, !.stmts = 1, !.saw = <<committed>>]
    /\ committed' = CloseReader(committed)
    /\ UNCHANGED <<ingestRest, dirVars, crawlVars, rival>>

\* list_categories
ListCategories ==
    /\ resp.kind = "none"
    /\ \E rows \in DescByCount(GroupByCategory(ReaderView)) :
         resp' = [NoResp EXCEPT !.op = "categories", !.kind = "ok", !.status = 200,
                     !.body = rows, !.stmts = 1, !.saw = <<committed>>]
    /\ committed' = CloseReader(committed)
    /\ UNCHANGED <<ingestRest, dirVars, crawlVars, rival>>

\* get_stats up to its first await
StatsBegin ==
    /\ resp.kind = "none"
    /\ resp' = [NoResp EXCEPT !.op = "stats", !.kind = "pending"]
    /\ UNCHANGED <<committed, ingestRest, dirVars, crawlVars, rival>>

\* get_stats: the next of its five statements; after the fifth the response
StatsStep ==
    /\ resp.op = "stats" /\ resp.kind = "pending"
    /\ LET k == resp.stmts + 1
       IN  /\ resp' = [resp EXCEPT !.body = Append(@, StatsStmt(k, ReaderView)),
                                   !.stmts = k, !.saw = Append(@, committed),
                                   !.kind = IF k = Len(StatsKeys) THEN "ok" ELSE "pending",
                                   !.status = IF k = Len(StatsKeys) THEN 200 ELSE 0]
           /\ committed' = IF k = Len(StatsKeys) THEN CloseReader(committed) ELSE committed
    /\ UNCHANGED <<ingestRest, dirVars, crawlVars, rival>>

\* the response has gone out; the next request can come
Deliver ==
    /\ resp.kind \in {"ok", "error"}
    /\ resp' = NoResp
    /\ UNCHANGED <<committed, ingestRest, dirVars, crawlVars, rival>>

(***************************************************************************)
(* A second ingest_events call on the same database file                   *)
(***************************************************************************)
\* SQLite lets one connection write at a time. A connection takes the write
\* lock at its first INSERT and holds it up to its commit or rollback; the
\* INSERT of another connection waits for the lock, up to sqlite3's timeout
\* (5 seconds, aiosqlite.connect is called without one), and then raises
\* OperationalError: database is locked.

\* the first call holds the write lock: it has run a statement and not ended
FirstWriting == ingPc # "idle" /\ lastStmt # NoStmt

\* the second call: where it is, what it has still to read (the drafts of the
\* files in sorted order, cut after the first unreadable file), its
\* connection's view while it writes, its count and how it ended
NoRival == [pc |-> "idle", todo |-> <<>>, db |-> EmptyDb, writing |-> FALSE, count |-> 0,
            result |-> "none"]

RECURSIVE DraftsOfFiles(_)
DraftsOfFiles(files) ==
    IF files = <<>> THEN <<>>
    ELSE LET data == outputDir[Head(files)]
         IN  IF data.kind = "malformed" THEN <<Malformed>>
             ELSE EventsOf(data) \o DraftsOfFiles(Tail(files))

CanBind(raw) == raw # Malformed /\ EventValid(raw)

RivalStart ==
    /\ rival.pc = "idle" /\ dirExists
    /\ rival' = [NoRival EXCEPT !.pc = "run",
                                !.todo = DraftsOfFiles(SortedFiles(DOMAIN outputDir))]
    /\ UNCHANGED <<ingestVars, dirVars, crawlVars, resp>>

\* its next INSERT .. ON CONFLICT: the first one takes the write lock
RivalWrite ==
    /\ rival.pc = "run" /\ rival.todo # <<>> /\ CanBind(Head(rival.todo))
    /\ rival.writing \/ ~FirstWriting
    /\ \E base \in {IF rival.writing THEN rival.db ELSE committed} :
       \E p \in {BindParams(Head(rival.todo))} :
          rival' = [rival EXCEPT !.db = Upsert(base, p, now), !.writing = TRUE,
                                 !.todo = Tail(@),
                                 !.count = Counted(@, Conflicts(base.events, p))]
    /\ UNCHANGED <<ingestVars, dirVars, crawlVars, resp>>

\* its first INSERT finds the write lock taken for longer than the timeout
RivalLocked ==
    /\ rival.pc = "run" /\ rival.todo # <<>> /\ CanBind(Head(rival.todo))
    /\ ~rival.writing /\ FirstWriting
    /\ rival' = [rival EXCEPT !.pc = "raised", !.result = "OperationalError"]
    /\ UNCHANGED <<ingestVars, dirVars, crawlVars, resp>>

\* json.load or Event(**raw) raises: the connection closes, nothing is committed
RivalFails ==
    /\ rival.pc = "run" /\ rival.todo # <<>> /\ ~CanBind(Head(rival.todo))
    /\ rival' = [rival EXCEPT !.pc = "raised", !.writing = FALSE, !.db = EmptyDb,
                    !.result = IF Head(rival.todo) = Malformed THEN "JSONDecodeError"
                               ELSE "ValidationError"]
    /\ UNCHANGED <<ingestVars, dirVars, crawlVars, resp>>

\* await db.commit(); return count. The first call's connection, which has no
\* transaction open, reads the new committed state from now on.
RivalCommit ==
    /\ rival.pc = "run" /\ rival.todo = <<>>
    /\ rival' = [rival EXCEPT !.pc = "done", !.writing = FALSE, !.result = "returned"]
    /\ committed' = IF rival.writing THEN rival.db ELSE committed
    /\ db' = IF rival.writing THEN rival.db ELSE db
    /\ UNCHANGED <<now, ingPc, jsonFiles, fileIdx, events, rawIdx, count, runs, ingResult,
                   lastStmt, history>>
    /\ UNCHANGED <<dirVars, crawlVars, resp>>

\* the first call's INSERT: its first one needs the write lock free
FirstWrite ==
    /\ lastStmt # NoStmt \/ ~rival.writing
    /\ ProcessDraft

\* the first call's first INSERT finds the write lock taken for longer than the timeout
FirstLocked ==
    /\ ingPc = "drafts" /\ rawIdx <= Len(events)
    /\ EventValid(events[rawIdx])
    /\ lastStmt = NoStmt /\ rival.writing
    /\ Raise("OperationalError")

(***************************************************************************)
(* Specifications                                                          *)
(***************************************************************************)
CrawlAtRest ==
    /\ clock = Horizon
    /\ today = 1
    /\ apiKeys = {}
    /\ uaPool = USER_AGENTS
    /\ raPc = "idle"
    /\ raNames = <<>>
    /\ raIdx = 1
    /\ all_events = <<>>
    /\ raResult = [kind |-> "none", events |-> <<>>, error |-> "None"]
    /\ scrapers = <<>>
    /\ runLog = <<>>

InitCrawl ==
    /\ clock \in {0, Horizon}
    /\ today = 1
    /\ apiKeys \in SUBSET {"edmtrain", "ticketmaster"}
    /\ uaPool = USER_AGENTS
    /\ raPc = "idle"
    /\ raNames = <<>>
    /\ raIdx = 1
    /\ all_events = <<>>
    /\ raResult = [kind |-> "none", events |-> <<>>, error |-> "None"]
    /\ scrapers = <<>>
    /\ runLog = <<>>

\* the ingestion of a directory of batches (the API's startup)
ApiAtRest == resp = NoResp /\ rival = NoRival
Init == InitIngest /\ CrawlAtRest /\ ApiAtRest
Next ==
    \/ IngestNoDir
    \/ IngestStart
    \/ ReadBatch
    \/ ReadBatchFails
    \/ ProcessDraft
    \/ ProcessDraftFails
    \/ Commit
    \/ Tick
Spec == Init /\ [][Next]_vars

\* one run_all call of the crawler CLI into an empty output directory
InitC == InitCrawl /\ IngestAtRest /\ dirExists = FALSE /\ outputDir = <<>> /\ ApiAtRest
NextC ==
    \/ RunAllStart
    \/ RunAllNext
    \/ RunAllUnknown
    \/ RunAllReturn
    \/ \E i \in DOMAIN scrapers : ScrapeMissingKey(i)
    \/ \E i \in DOMAIN scrapers : ScrapeBegin(i)
    \/ \E i \in DOMAIN scrapers : RateLimitWait(i)
    \/ \E i \in DOMAIN scrapers : GetOk(i)
    \/ \E i \in DOMAIN scrapers : GetFails(i)
    \/ \E i \in DOMAIN scrapers : GetRaisesOther(i)
    \/ \E i \in DOMAIN scrapers : PostFails(i)
    \/ \E i \in DOMAIN scrapers : Backoff(i)
    \/ \E i \in DOMAIN scrapers : RunFinally(i)
    \/ \E i \in DOMAIN scrapers : RunWrites(i)
    \/ \E i \in DOMAIN scrapers : RunRaises(i)
SpecCrawl == InitC /\ [][NextC]_vars

\* the directories the API is started on and read from
QueryDirs ==
    {(F_dice :> ListFile(<<DraftA, DraftD>>)) @@ (F_meetup :> ListFile(<<DraftC>>)),
     (F_dice :> ListFile(<<DraftB, DraftC>>)) @@ (F_meetup :> ListFile(<<DraftBad>>)),
     (F_dice :> ListFile(<<DraftA, DraftB>>)) @@ (F_meetup :> Malformed),
     (F_dice :> ListFile(<<DraftB>>))}

\* requests served while ingest_events runs (by another process on the same
\* database file) and between its runs
InitQ ==
    /\ dirExists = TRUE
    /\ outputDir \in QueryDirs
    /\ IngestAtRest /\ CrawlAtRest /\ ApiAtRest
NextQ ==
    \/ IngestStart
    \/ ReadBatch
    \/ ReadBatchFails
    \/ ProcessDraft
    \/ ProcessDraftFails
    \/ Commit
    \/ ListBegin
    \/ ListPage
    \/ GetEvent
    \/ ListSources
    \/ ListCategories
    \/ StatsBegin
    \/ StatsStep
    \/ Deliver
SpecQuery == InitQ /\ [][NextQ]_vars

\* two ingest_events calls at overlapping times on one database file
TwoDirs ==
    {(F_dice :> ListFile(<<DraftA, DraftD>>)) @@ (F_meetup :> ListFile(<<DraftC>>)),
     (F_dice :> ListFile(<<DraftA, DraftB>>)),
     (F_dice :> ListFile(<<DraftB, DraftC>>)) @@ (F_meetup :> ListFile(<<DraftBad>>)),
     (F_dice :> ListFile(<<>>)) @@ (F_meetup :> ListFile(<<DraftD>>))}
InitTwo ==
    /\ dirExists = TRUE
    /\ outputDir \in TwoDirs
    /\ IngestAtRest /\ CrawlAtRest /\ ApiAtRest
NextTwo ==
    \/ IngestStart
    \/ ReadBatch
    \/ FirstWrite
    \/ FirstLocked
    \/ ProcessDraftFails
    \/ Commit
    \/ RivalStart
    \/ RivalWrite
    \/ RivalLocked
    \/ RivalFails
    \/ RivalCommit
SpecTwo == InitTwo /\ [][NextTwo]_vars

\* the directories whose one draft carries the address and the price the
\* derived fields are computed from: addresses put together from two parts
\* (borough names in several cases, the city, the state with and without a
\* ZIP code after it, other places), and price texts
AF_Manhattan == <<"M","a","n","h","a","t","t","a","n">>
AF_BROOKLYN == <<"B","R","O","O","K","L","Y","N">>
AF_queens == <<"q","u","e","e","n","s">>
AF_TheBronx == <<"T","h","e"," ","B","r","o","n","x">>
AF_Bronx == <<"B","r","o","n","x"," ","Z","o","o">>
AF_StatenIsland == <<"S","t","a","t","e","n"," ","I","s","l","a","n","d">>
AF_Statenisland == <<"S","t","a","t","e","n","i","s","l","a","n","d">>
AF_NewYork == <<","," ","N","e","w"," ","Y","o","r","k">>
AF_NY == <<","," ","N","Y">>
AF_Zip == <<" ","1","0","0","0","1">>
AF_Hoboken == <<","," ","H","o","b","o","k","e","n",","," ","N","J">>
AF_Elm == <<"5"," ","E","l","m"," ","S","t">>
AF_Ave == <<"M","a","n","h","a","t","t","a","n"," ","A","v","e",","," ">>
AddressParts ==
    {<<>>, AF_Manhattan, AF_BROOKLYN, AF_queens, AF_TheBronx, AF_Bronx, AF_StatenIsland,
     AF_Statenisland, AF_NewYork, AF_NY, AF_Zip, AF_Hoboken, AF_Elm, AF_Ave}
Addresses == {None} \cup {a \o b : a \in AddressParts, b \in AddressParts}
PR_free == <<"f","r","e","e">>
PR_FREE == <<"F","R","E","E">>
PR_tab_free == <<"\t","f","r","e","e","\n">>
PR_0 == <<"0">>
PR_0_00 == <<"0",".","0","0">>
PR_d0 == <<"$","0">>
PR_d0_00 == <<"$","0",".","0","0">>
PR_blank == <<" "," ">>
PR_FreeAdmission == <<"F","r","e","e"," ","a","d","m","i","s","s","i","o","n">>
PR_0_0 == <<"0",".","0">>
PR_d_0 == <<"$"," ","0">>
PR_US0 == <<"U","S","$","0">>
Prices ==
    {None, <<>>, P_20, P_Free, P_FREEpad, PR_free, PR_FREE, PR_tab_free, PR_0, PR_0_00,
     PR_d0, PR_d0_00, PR_blank, PR_FreeAdmission, PR_0_0, PR_d_0, PR_US0}
DeriveDirs ==
    {F_dice :> ListFile(<<[DraftA EXCEPT !.address = a, !.price = p]>>) :
        a \in Addresses, p \in Prices}

\* the ingestion of one draft, whatever its address and price
InitD ==
    /\ dirExists = TRUE
    /\ outputDir \in DeriveDirs
    /\ IngestAtRest /\ CrawlAtRest /\ ApiAtRest
NextD ==
    \/ IngestStart
    \/ ReadBatch
    \/ ProcessDraft
    \/ Commit
SpecDerive == InitD /\ [][NextD]_vars

\* two crawler instances alive at once, their run() calls awaited together
\* (run_all itself awaits one run() after the other)
PairArgs == {<<"dice", "meetup">>}
InitPair ==
    /\ clock \in {0, Horizon}
    /\ today = 1
    /\ apiKeys = {}
    /\ uaPool = USER_AGENTS
    /\ raPc = "running"
    /\ raNames \in PairArgs
    /\ raIdx = 1
    /\ all_events = <<>>
    /\ raResult = [kind |-> "none", events |-> <<>>, error |-> "None"]
    /\ scrapers = [i \in 1..2 |-> NewScraper(raNames[i])]
    /\ runLog = <<>>
    /\ IngestAtRest /\ dirExists = FALSE /\ outputDir = <<>> /\ ApiAtRest
NextPair ==
    \/ \E i \in DOMAIN scrapers : ScrapeBegin(i)
    \/ \E i \in DOMAIN scrapers : RateLimitWait(i)
    \/ \E i \in DOMAIN scrapers : GetFails(i)
    \/ Backoff(1)
    \/ GetOk(1)
    \/ GetRaisesOther(1)
    \/ RunFinally(1)
    \/ RunWrites(1)
    \/ RunRaises(1)
SpecPair == InitPair /\ [][NextPair]_vars

(***************************************************************************)
(* Properties of the ingestion and the store                               *)
(***************************************************************************)
\* both views of the store: the writer's own and the committed one
Stores == {db, committed}

RowKey(r) == <<r.title, r.start_time, r.venue>>
FreeFlag(b) == IF b THEN 1 ELSE 0

\* main.py list_events: e.id IN (SELECT rowid FROM events_fts WHERE events_fts MATCH q)
ListMatch(s, q) == {r \in s.events : r.id \in FtsMatch(s.fts, q)}

\* C1: after any sequence of ingest_events runs over any batches, the store holds
\* at most one record per natural key (title, start_time, venue)
C1_OneRecordPerNaturalKey ==
    \A s \in Stores : \A r1, r2 \in s.events :
        (r1.title = r2.title /\ r1.start_time = r2.start_time /\ r1.venue = r2.venue)
            => r1 = r2

\* two natural keys are stored, and one of them has been ingested twice
C1_Witness ==
    /\ lastStmt.kind = "update"
    /\ Cardinality(db.events) = 2
    /\ Cardinality(committed.events) = 2

\* C2: a draft whose natural key exists replaces description, url, address, borough,
\* end_time, category, source_id, image_url, price and is_free by the values derived
\* from it; every record carries the values of the last processed draft of its key
C2_LastDraftWins ==
    \A pair \in {<<db, history.cur>>, <<committed, history.saved>>} :
        \A r \in pair[1].events :
            \E h \in pair[2] :
                /\ h.key = RowKey(r)
                /\ r.description = h.raw.description
                /\ r.url = OptUrl(h.raw.url)
                /\ r.address = h.raw.address
                /\ r.borough = extract_borough(h.raw.address)
                /\ r.end_time = OptIso(h.raw.end_time)
                /\ r.category = Event(h.raw).category
                /\ r.source_id = h.raw.source_id
                /\ r.image_url = OptUrl(h.raw.image_url)
                /\ r.price = h.raw.price
                /\ r.is_free = FreeFlag(check_is_free(h.raw.price))

\* "$20" then "Free" on one key: one row, price "Free", is_free true
C2_Witness ==
    /\ lastStmt.kind = "update"
    /\ \E o \in lastStmt.old : o.price = P_20 /\ o.is_free = 0
    /\ \E r \in committed.events :
          /\ committed.events = {r}
          /\ r.price = P_Free /\ r.is_free = 1
          /\ r.description = T_NewTrumpet /\ r.url = "https://meetup.com/"

\* C3: ingesting a draft whose key exists leaves id, title, start_time, venue and
\* created_at of the record unchanged and sets updated_at to the time of the
\* statement; no later step changes the created_at (or id) of an existing record
C3_UpdateKeepsIdentity ==
    /\ [](lastStmt.kind = "update" =>
            \A o \in lastStmt.old : \A n \in lastStmt.new :
                /\ n.id = o.id /\ n.title = o.title /\ n.start_time = o.start_time
                /\ n.venue = o.venue /\ n.created_at = o.created_at
                /\ n.updated_at = SqlDatetimeNow(lastStmt.at))
    /\ [][\A s \in {<<db, db'>>, <<committed, committed'>>} :
            \A r \in s[1].events : \A n \in s[2].events :
                RowKey(n) = RowKey(r) => (n.created_at = r.created_at /\ n.id = r.id)]_vars

\* a later run updated a committed record: updated_at moved, created_at did not
C3_Witness ==
    /\ runs >= 1
    /\ lastStmt.kind = "update"
    /\ \E o \in lastStmt.old : \E n \in lastStmt.new :
          /\ o \in committed.events
          /\ n.updated_at # o.updated_at
          /\ n.created_at = o.created_at
          /\ n.price # o.price

\* C4: an insert sets created_at and updated_at of the new record to the
\* ingestion time, whatever the draft carries
C4_InsertStampsIngestionTime ==
    lastStmt.kind = "insert" =>
        \A n \in lastStmt.new :
            /\ n.created_at = SqlDatetimeNow(lastStmt.at)
            /\ n.updated_at = SqlDatetimeNow(lastStmt.at)

\* C5: in both views the index has one entry per record, holding the terms of the
\* record's current (title, description, venue), so a search finds exactly the
\* records whose current content has the word
SearchWords == {<<"s","a","x","o","p","h","o","n","e">>, <<"T","r","u","m","p","e","t">>,
                <<"j","a","z","z">>, <<"s","h","o","w">>, <<"n","o","t","e">>}

C5_IndexMirrorsTable ==
    \A s \in Stores :
        /\ s.fts.docs = {r.id : r \in s.events}
        /\ s.fts.terms = UNION {FtsTerms(r.id, r.title, r.description, r.venue) : r \in s.events}
        /\ \A r \in s.events :
              \E content \in {Tokens(r.title) \cup Tokens(r.description) \cup Tokens(r.venue)} :
                  \A q \in SearchWords :
                      (r \in ListMatch(s, q)) <=> (Tokens(q) \subseteq content)

\* an update replaced "old saxophone" by "new trumpet": trumpet finds the record,
\* saxophone finds nothing
C5_Witness ==
    /\ lastStmt.kind = "update"
    /\ \E o \in lastStmt.old : o.description = T_OldSax
    /\ \E n \in lastStmt.new :
          /\ n.description = T_NewTrumpet
          /\ ListMatch(db, <<"T","r","u","m","p","e","t">>) = {n}
    /\ ListMatch(db, <<"s","a","x","o","p","h","o","n","e">>) = {}

\* C6: every record's is_free is check_is_free of the price in the same record
C6_IsFreeFollowsPrice ==
    \A s \in Stores : \A r \in s.events : r.is_free = FreeFlag(check_is_free(r.price))

\* an update turned a priced record into a free one
C6_Witness ==
    /\ lastStmt.kind = "update"
    /\ \E o \in lastStmt.old : \E n \in lastStmt.new :
          /\ o.is_free = 0 /\ o.price = P_20
          /\ n.is_free = 1 /\ n.price \in {P_Free, P_FREEpad}

\* C7: every record's borough is extract_borough of the address in the same record;
\* the borough a draft carries is not stored
C7_BoroughFollowsAddress ==
    \A s \in Stores : \A r \in s.events : r.borough = extract_borough(r.address)

\* the draft said Queens, its address says Brooklyn: Brooklyn is stored
C7_Witness ==
    /\ lastStmt.kind # "none"
    /\ \E raw \in lastStmt.raw : \E n \in lastStmt.new :
          /\ raw.borough = "Queens"
          /\ n.address = raw.address
          /\ n.borough = "Brooklyn"
          /\ n \in db.events

\* C8: a malformed batch is skipped: the run still returns, counts the drafts of
\* the other batches and stores each of them
GoodFiles == {f \in DOMAIN outputDir : outputDir[f].kind # "malformed"}
RECURSIVE SumLen(_)
SumLen(fs) ==
    IF fs = {} THEN 0
    ELSE LET f == CHOOSE x \in fs : TRUE
         IN  Len(EventsOf(outputDir[f])) + SumLen(fs \ {f})

C8_BadBatchSkipped ==
    (/\ ingPc = "idle" /\ runs >= 1
     /\ GoodFiles # DOMAIN outputDir
     /\ \A f \in GoodFiles :
           \A i \in 1..Len(EventsOf(outputDir[f])) : EventValid(EventsOf(outputDir[f])[i]))
    => /\ ingResult.kind = "returned"
       /\ ingResult.count = SumLen(GoodFiles)
       /\ \A f \in GoodFiles : \A i \in 1..Len(EventsOf(outputDir[f])) :
             \E r \in committed.events : RowKey(r) = KeyOfRaw(EventsOf(outputDir[f])[i])

(***************************************************************************)
(* Properties of the crawler runner and of fetch                           *)
(***************************************************************************)
FetchFailures == {"HTTPStatusError", "TransportError"}

\* C9: run_all runs every requested crawler to completion even when some fail,
\* and returns the drafts of every crawler that succeeded
C9_EveryCrawlerRuns ==
    (raPc = "done" /\ \A k \in 1..Len(raNames) : raNames[k] \in RegistryNames)
    => /\ {runLog[k].name : k \in 1..Len(runLog)} = {raNames[k] : k \in 1..Len(raNames)}
       /\ \A k \in 1..Len(runLog) :
             runLog[k].ok =>
                 LET batch == outputDir[OutputPath(runLog[k].name, today)].items
                 IN  \A j \in 1..Len(batch) :
                        \E m \in 1..Len(raResult.events) : raResult.events[m] = batch[j]

\* C10: a fetch call makes its attempts one after another until the first that
\* succeeds and returns then; it makes at most max_retries attempts; when
\* max_retries attempts have failed it ends with the last error as the cause and
\* sends nothing more
C10_FetchAttempts ==
    \A i \in DOMAIN scrapers :
        LET s == scrapers[i]
            n == Len(s.tries)
        IN  s.outcome # "none" =>
               /\ n <= max_retries
               /\ \A k \in 1..(n - 1) : s.tries[k] \in FetchFailures
               /\ s.outcome = "pending" => \A k \in 1..n : s.tries[k] \in FetchFailures
               /\ s.outcome = "returned" <=> (n >= 1 /\ s.tries[n] = "ok")
               /\ s.outcome = "terminal" <=>
                     (n = max_retries /\ s.tries[n] \in FetchFailures)
               /\ s.outcome = "terminal" =>
                     /\ s.cause = s.tries[n]
                     /\ s.pc \notin {"wait", "get", "backoff"}

\* two failed attempts, then a success that fetch returns
C10_Witness ==
    \E i \in DOMAIN scrapers :
        /\ scrapers[i].outcome = "returned"
        /\ scrapers[i].tries = <<"TransportError", "HTTPStatusError", "ok">>
        /\ scrapers[i].got # <<>>

\* C11: any two consecutive requests of one crawler instance, retries of one
\* fetch and successive fetch calls alike, are at least its rate_limit apart
C11_RateLimitGap ==
    \A i \in DOMAIN scrapers :
        scrapers[i].gap # -1 => scrapers[i].gap >= Profile(scrapers[i].name).rate_limit

\* the second page's request had to wait for the rate limit and was sent
\* exactly rate_limit after the first page's
C11_Witness ==
    \E i \in DOMAIN scrapers :
        /\ scrapers[i].pc = "get" /\ scrapers[i].page = 2
        /\ scrapers[i].gap = Profile(scrapers[i].name).rate_limit

\* C12: within one fetch call the backoff sleep after failed attempt i is
\* retry_backoff * i (1s, 2s, ...), for i = 1 .. max_retries - 1: every failed
\* attempt but the last is followed by its sleep, the last by none
C12_LinearBackoff ==
    \A i \in DOMAIN scrapers :
        LET s == scrapers[i]
        IN  /\ \A k \in 1..Len(s.waits) : s.waits[k] = retry_backoff * k
            /\ Len(s.waits) <= max_retries - 1
            /\ (s.outcome = "pending" /\ s.pc \in {"wait", "get"}) => Len(s.waits) = Len(s.tries)
            /\ (s.outcome = "pending" /\ s.pc = "backoff") => Len(s.waits) = Len(s.tries) - 1
            /\ s.outcome = "terminal" => Len(s.waits) = max_retries - 1

\* a fetch that failed twice slept 1s, then 2s, and then succeeded
C12_Witness ==
    \E i \in DOMAIN scrapers :
        /\ scrapers[i].waits = <<retry_backoff, 2 * retry_backoff>>
        /\ scrapers[i].outcome = "returned"

\* C13: if scrape() raises, run() raises the same error and writes no batch
\* (the run's batch file is there only if an earlier run of the same crawler
\* returned and wrote it); if scrape() returns, run() writes the whole returned
\* sequence as one batch.
C13_RunWritesAllOrNothing ==
    \A i \in DOMAIN scrapers :
        LET s == scrapers[i]
            path == OutputPath(s.name, today)
        IN  /\ s.exc # "None" =>
                  /\ s.pc \notin {"write", "returned"}
                  /\ path \in DOMAIN outputDir =>
                        \E k \in DOMAIN runLog : runLog[k].name = s.name /\ runLog[k].ok
            /\ s.pc = "raised" => raResult = RaRaised(s.exc)
            /\ s.pc = "returned" =>
                  /\ path \in DOMAIN outputDir
                  /\ outputDir[path] = ListFile(s.got)

\* scrape() raised after it had collected events: run() raised, nothing written
C13_Witness ==
    \E i \in DOMAIN scrapers :
        /\ scrapers[i].pc = "raised" /\ scrapers[i].got # <<>>
        /\ OutputPath(scrapers[i].name, today) \notin DOMAIN outputDir

\* C14: for every crawler, when all max_retries attempts of its first listing
\* request have failed, run() fails and writes no batch
C14_ExhaustedRetriesFailRun ==
    \A i \in DOMAIN scrapers :
        LET s == scrapers[i]
        IN  (s.outcome = "terminal" /\ s.page = 1) =>
               /\ s.exc # "None"
               /\ s.pc \notin {"write", "returned"}
               /\ OutputPath(s.name, today) \notin DOMAIN outputDir

\* C15: a run in which a fetch failed terminally after listing pages had been
\* parsed writes no batch holding the drafts of those earlier pages
C15_NoPartialBatch ==
    \A i \in DOMAIN scrapers :
        LET s == scrapers[i]
        IN  (s.outcome = "terminal" /\ s.page > 1 /\ s.got # <<>>) =>
               /\ s.pc \notin {"write", "returned"}
               /\ OutputPath(s.name, today) \notin DOMAIN outputDir

\* C16: for every crawler an item that cannot be turned into a valid draft is
\* skipped: no scrape() ends with the item's validation error
C16_BadItemSkipped ==
    \A i \in DOMAIN scrapers : scrapers[i].exc # "ValidationError"

\* C17: for every crawler a request that failed with a transient error is tried
\* again until it succeeds or max_retries attempts have been made
C17_TransientFailureRetried ==
    \A i \in DOMAIN scrapers :
        LET s == scrapers[i]
            n == Len(s.tries)
        IN  (n >= 1 /\ s.tries[n] \in FetchFailures /\ s.pc \notin {"wait", "get", "backoff"})
               => n = max_retries

\* C18: a crawler that needs an API key and finds none fails before it sends
\* any request, makes no attempt or retry, and writes no batch
C18_MissingKeyFailsEarly ==
    \A i \in DOMAIN scrapers :
        LET s == scrapers[i]
        IN  (Profile(s.name).needsKey /\ s.name \notin apiKeys) =>
               /\ s.sentAt = -1 /\ s.tries = <<>> /\ s.attempt = 0 /\ s.client = "None"
               /\ s.pc \in {"scrape", "finally", "raise", "raised"}
               /\ s.pc # "scrape" => s.exc = "RuntimeError"
               /\ OutputPath(s.name, today) \notin DOMAIN outputDir

\* ticketmaster run without its key: run() raised
C18_Witness ==
    \E i \in DOMAIN scrapers :
        /\ scrapers[i].name = "ticketmaster" /\ "ticketmaster" \notin apiKeys
        /\ scrapers[i].pc = "raised"

\* C19: once the finally block of run() is passed, whether scrape() returned or
\* raised, the instance holds no open client
C19_ClientClosed ==
    \A i \in DOMAIN scrapers :
        scrapers[i].pc \in {"write", "returned", "raise", "raised"} => scrapers[i].client # "open"

\* scrape() raised with a client open: run() raised and the client is closed
C19_Witness ==
    \E i \in DOMAIN scrapers :
        /\ scrapers[i].pc = "raised" /\ scrapers[i].client = "closed"
        /\ scrapers[i].sentAt # -1

(***************************************************************************)
(* The count ingest_events returns                                         *)
(***************************************************************************)
\* C20: ingest_events returns the number of drafts it processed, summed over
\* all the batches of the directory, however many records they changed
C20_CountsDraftsProcessed ==
    (ingResult.kind = "returned" /\ runs >= 1 /\ dirExists)
    => ingResult.count = SumLen(DOMAIN outputDir)

\* the same draft twice (in one batch or in two): counted twice, one record
C20_Witness ==
    /\ ingResult.kind = "returned" /\ runs >= 1
    /\ ingResult.count = 2
    /\ Cardinality(committed.events) = 1
    /\ \E f \in DOMAIN outputDir : \E i \in 1..Len(EventsOf(outputDir[f])) :
          EventsOf(outputDir[f])[i] = DraftA
    /\ \A f \in DOMAIN outputDir : \A i \in 1..Len(EventsOf(outputDir[f])) :
          EventsOf(outputDir[f])[i] = DraftA

\* C21: a second ingest_events run over the same unchanged batches leaves the
\* set of records, every field of every record but updated_at, and the
\* full-text index as the first run left them
NoUpdatedAt(rows) == {[r EXCEPT !.updated_at = "None"] : r \in rows}

C21_SecondRunChangesNothing ==
    [][(/\ ingPc = "loop" /\ ingPc' = "idle" /\ ingResult'.kind = "returned"
        /\ ingResult.kind = "returned" /\ dirExists)
       => /\ NoUpdatedAt(committed'.events) = NoUpdatedAt(committed.events)
          /\ committed'.fts = committed.fts]_vars

\* the second run has committed: it updated both records a second later
C21_Witness ==
    /\ runs = 2 /\ ingPc = "idle" /\ ingResult.kind = "returned" /\ ingResult.count = 2
    /\ lastStmt.kind = "update"
    /\ Cardinality(committed.events) = 2
    /\ \A r \in committed.events : r.updated_at = SqlDatetimeNow(1)

\* C30: ingestion never deletes a record: in the committed store and in the
\* writer's view the set of ids only grows (a rollback takes the writer's view
\* back to the committed store)
Ids(s) == {r.id : r \in s.events}

C30_IngestionNeverDeletes ==
    [][/\ Ids(committed) \subseteq Ids(committed')
       /\ Ids(db) \subseteq Ids(db') \/ db' = committed]_vars

\* two runs over two records: the second run took two more rowids from the
\* sequence, the records kept ids 1 and 2
C30_Witness ==
    /\ runs = 2 /\ ingPc = "idle" /\ ingResult.kind = "returned"
    /\ Ids(committed) = {1, 2}
    /\ committed.seq = 4

PassQ(s, q) == {e \in s.events : Given(q) => e.id \in FtsAll(s.fts, q)}
PassEq(s, col, v) == {e \in s.events : (v # "None" /\ v # "") => (e[col] # "None" /\ e[col] = v)}
PassFrom(s, d) == {e \in s.events : d # <<>> => ~TupleLess(DateOf(e.start_time), d)}
PassTo(s, d) == {e \in s.events : d # <<>> => ~TupleLess(d, DateOf(e.start_time))}
PassFree(s, v) ==
    {e \in s.events : (v = "true" => e.is_free = 1) /\ (v = "false" => e.is_free = 0)}
Matches(s, f) ==
    PassQ(s, f.q) \cap PassEq(s, "category", f.category) \cap PassEq(s, "borough", f.borough)
    \cap PassFrom(s, f.date_from) \cap PassTo(s, f.date_to) \cap PassFree(s, f.is_free)
    \cap PassEq(s, "source", f.source)

Range(seq) == {seq[i] : i \in DOMAIN seq}

C24_FiltersComposeConjunctively ==
    /\ (resp.op = "list" /\ resp.kind \in {"pending", "ok"})
       => resp.body.total = Cardinality(Matches(resp.saw[1], resp.args.f))
    /\ (resp.op = "list" /\ resp.kind = "ok")
       => /\ Range(resp.body.events) \subseteq Matches(resp.saw[2], resp.args.f)
          /\ resp.args.page = 1 /\ resp.args.per_page = 100
             => Range(resp.body.events) = Matches(resp.saw[2], resp.args.f)

\* the store holds a record with null borough and one in Manhattan; the
\* request for Manhattan, nightlife, free returns the one and only it
C24_Witness ==
    /\ resp.op = "list" /\ resp.kind = "ok"
    /\ GivenStr(resp.args.f.borough) /\ GivenStr(resp.args.f.category)
    /\ resp.args.f.is_free = "true"
    /\ resp.body.total = 1 /\ Len(resp.body.events) = 1
    /\ \E e \in resp.saw[2].events : e.borough = "None"
    /\ Cardinality(resp.saw[2].events) = 3

\* C25: over one store state, page p holds the matches at positions
\* (p-1)*per_page .. p*per_page-1 of the matches in ascending start_time: at
\* most per_page rows in non-decreasing start_time, pages 1..pages together
\* every match exactly once, a page after the last one empty
RECURSIVE PagesUpTo(_, _, _, _)
PagesUpTo(s, f, per_page, p) ==
    IF p = 0 THEN <<>>
    ELSE PagesUpTo(s, f, per_page, p - 1) \o SelectPage(s, f, per_page, Offset(p, per_page))

Injective(seq) == \A i \in DOMAIN seq : \A j \in DOMAIN seq : seq[i] = seq[j] => i = j

C25_PagesPartitionSortedMatches ==
    (resp.op = "list" /\ resp.kind = "ok")
    => \E s \in {resp.saw[2]} : \E f \in {resp.args.f} :
       \E p \in {resp.args.page} : \E n \in {resp.args.per_page} :
       \E rows \in {resp.body.events} : \E m \in {Cardinality(Matches(s, f))} :
       \E all \in {PagesUpTo(s, f, n, Pages(m, n))} :
          /\ Len(rows) <= n
          /\ Len(rows) = Max(0, (IF p * n < m THEN p * n ELSE m) - (p - 1) * n)
          /\ \A i \in 1..(Len(rows) - 1) :
                ~TupleLess(ParseDatetime(rows[i + 1].start_time),
                           ParseDatetime(rows[i].start_time))
          /\ Len(all) = m /\ Range(all) = Matches(s, f) /\ Injective(all)
          /\ \A i \in 1..(Len(all) - 1) :
                ~TupleLess(ParseDatetime(all[i + 1].start_time),
                           ParseDatetime(all[i].start_time))
          /\ \A i \in 1..Len(rows) : rows[i] = all[(p - 1) * n + i]
          /\ p > Pages(m, n) => rows = <<>>

\* three matches two to a page: page 2 holds the third, which starts last
C25_Witness ==
    /\ resp.op = "list" /\ resp.kind = "ok"
    /\ resp.args.f = NoFilter /\ resp.args.per_page = 2 /\ resp.args.page = 2
    /\ resp.body.total = 3 /\ Len(resp.body.events) = 1
    /\ resp.body.events[1].start_time = "2026-03-01T19:30:00"

\* C26: total is the number of matches before pagination, whatever page and
\* per_page are, and pages = max(1, ceil(total / per_page)): the least n >= 1
\* with n * per_page >= total; 45 at 20 a page are 3 pages, no match is 1 page
C26_TotalAndPages ==
    /\ (resp.op = "list" /\ resp.kind = "ok")
       => /\ resp.body.total = Cardinality(Matches(resp.saw[1], resp.args.f))
          /\ resp.body.pages >= 1
          /\ resp.body.pages * resp.args.per_page >= resp.body.total
          /\ resp.body.pages > 1
             => (resp.body.pages - 1) * resp.args.per_page < resp.body.total
    /\ Pages(45, 20) = 3
    /\ \A n \in {1, 20, 100} : Pages(0, n) = 1

\* two matches at two a page: one page, and page 3 of it is asked for
C26_Witness ==
    /\ resp.op = "list" /\ resp.kind = "ok"
    /\ resp.args.per_page = 2 /\ resp.args.page = 3
    /\ resp.body.total = 2 /\ resp.body.pages = 1 /\ resp.body.events = <<>>

\* C27: a list call with page < 1, per_page < 1 or per_page > 100 is answered
\* with a validation error (422) before any statement has run, and no call
\* runs a statement with page or per_page out of range or changed
C27_PageParamsRejected ==
    resp.op = "list"
    => /\ (resp.args.page < 1 \/ resp.args.per_page < 1 \/ resp.args.per_page > 100)
          => /\ resp.kind = "error" /\ resp.status = 422
             /\ resp.stmts = 0 /\ resp.saw = <<>> /\ resp.body = <<>>
       /\ resp.kind = "ok"
          => resp.body.page = resp.args.page /\ resp.body.per_page = resp.args.per_page

\* per_page = 101 on a store that holds records
C27_Witness ==
    /\ resp.op = "list" /\ resp.status = 422
    /\ resp.args.page = 1 /\ resp.args.per_page = 101
    /\ committed.events # {}

\* C28: no step of list, get, sources, categories or stats changes the store:
\* the records and the index are after the step what they were before it,
\* also when the request ends in 404, 422 or 500
C28_QueriesChangeNothing ==
    [][resp' # resp => (committed' = committed /\ db' = db)]_vars

\* a list request failed on its MATCH argument while a run had uncommitted rows
C28_Witness ==
    /\ resp.op = "list" /\ resp.status = 500
    /\ committed.events # {} /\ db # committed

\* C29: the aggregates agree with the table: sources() has one row per source
\* with its number of records, categories() one per non-null category, both in
\* descending count; stats() counts the records, the free records and the
\* distinct non-null sources, categories and boroughs, so that total_sources
\* and total_categories are the lengths of sources() and categories()
NumOf(s, col, v) == Cardinality({e \in s.events : e[col] = v})
NonNull(s, col) == {v \in {e[col] : e \in s.events} : v # "None"}
Descending(rows) ==
    \A i \in DOMAIN rows : \A j \in DOMAIN rows : i < j => rows[i].count >= rows[j].count

C29_AggregatesAgreeWithTable ==
    /\ resp.op = "sources"
       => /\ Len(resp.body) = Cardinality(NonNull(resp.saw[1], "source"))
          /\ \A v \in NonNull(resp.saw[1], "source") :
                [source |-> v, count |-> NumOf(resp.saw[1], "source", v)] \in Range(resp.body)
          /\ Descending(resp.body)
    /\ resp.op = "categories"
       => /\ Len(resp.body) = Cardinality(NonNull(resp.saw[1], "category"))
          /\ \A v \in NonNull(resp.saw[1], "category") :
                [category |-> v, count |-> NumOf(resp.saw[1], "category", v)]
                    \in Range(resp.body)
          /\ Descending(resp.body)
    /\ resp.op = "stats"
       => /\ resp.stmts >= 1 => resp.body[1] = Cardinality(resp.saw[1].events)
          /\ resp.stmts >= 2
             => /\ resp.body[2] = Cardinality(NonNull(resp.saw[2], "source"))
                /\ resp.body[2] = Cardinality(GroupBySource(resp.saw[2]))
          /\ resp.stmts >= 3
             => /\ resp.body[3] = Cardinality(NonNull(resp.saw[3], "category"))
                /\ resp.body[3] = Cardinality(GroupByCategory(resp.saw[3]))
          /\ resp.stmts >= 4 => resp.body[4] = NumOf(resp.saw[4], "is_free", 1)
          /\ resp.stmts >= 5 => resp.body[5] = Cardinality(NonNull(resp.saw[5], "borough"))

\* stats() of three records of which two have no borough
C29_Witness ==
    /\ resp.op = "stats" /\ resp.kind = "ok"
    /\ resp.saw[1] = resp.saw[5]
    /\ resp.body[1] = 3 /\ resp.body[5] = 1
    /\ Cardinality({e \in resp.saw[5].events : e.borough = "None"}) = 2

\* C23: two ingest_events runs that overlap are serialized and come out as if
\* run one after the other: at most one of them is writing at any moment,
\* neither loses its upserts to the other (neither ends in "database is
\* locked"), and when both have returned the store holds what two runs in a
\* row leave, one record per natural key
RECURSIVE UpsertAll(_, _)
UpsertAll(d, drafts) ==
    IF drafts = <<>> THEN d
    ELSE UpsertAll(Upsert(d, BindParams(Head(drafts)), now), Tail(drafts))

OneAfterTheOther ==
    UpsertAll(UpsertAll(EmptyDb, DraftsOfFiles(SortedFiles(DOMAIN outputDir))),
              DraftsOfFiles(SortedFiles(DOMAIN outputDir)))

C23_OverlappingRunsSerialized ==
    /\ ~(FirstWriting /\ rival.writing)
    /\ ingResult.kind = "raised" => ingResult.error # "OperationalError"
    /\ rival.result # "OperationalError"
    /\ (runs = 1 /\ ingResult.kind = "returned" /\ rival.result = "returned")
       => /\ committed.events = OneAfterTheOther.events
          /\ committed.fts = OneAfterTheOther.fts
          /\ \A a \in committed.events : \A b \in committed.events :
                RowKey(a) = RowKey(b) => a = b

\* C34: for every address holding a borough keyword, in any letter case,
\* extract_borough gives the borough of that keyword, also next to the names
\* of other boroughs or "new york"
KeywordsIn(address) ==
    {i \in 1..Len(NYC_BOROUGHS) : Contains(Lower(address), NYC_BOROUGHS[i][1])}

C34_KeywordGivesItsBorough ==
    \A r \in db.events : \A i \in KeywordsIn(r.address) : r.borough = NYC_BOROUGHS[i][2]

\* C35: for an address with no borough keyword, extract_borough gives
\* Manhattan exactly when the address holds "new york" or ", ny " in any
\* letter case, and null otherwise; null for a null or an empty address
C35_DefaultManhattan ==
    \A r \in db.events :
        /\ r.address \in {None, <<>>} => r.borough = "None"
        /\ (r.address \notin {None, <<>>} /\ KeywordsIn(r.address) = {})
           => \E lowered \in {Lower(r.address)} :
                 r.borough = IF \/ Contains(lowered, <<"n","e","w"," ","y","o","r","k">>)
                                \/ Contains(lowered, <<","," ","n","y"," ">>)
                             THEN "Manhattan" ELSE "None"

\* ", NY 10001" was given Manhattan
C35_Witness ==
    /\ ingPc = "idle" /\ ingResult.kind = "returned"
    /\ \E r \in committed.events : r.address = AF_NY \o AF_Zip /\ r.borough = "Manhattan"

\* C36: check_is_free is true exactly of the prices that, trimmed and
\* lowered, are "", "free", "$0", "$0.00", "0" or "0.00": of the prices
\* offered, those listed here; false of "$20", "Free admission" and null
FreePrices ==
    {<<>>, PR_blank, PR_free, PR_FREE, P_Free, P_FREEpad, PR_tab_free,
     PR_0, PR_0_00, PR_d0, PR_d0_00}

C36_FreeExactlyForTheSix ==
    /\ \A r \in db.events :
          /\ r.is_free = 1 <=> r.price \in FreePrices
          /\ r.is_free = 1
             <=> (r.price # None /\ Lower(Strip(r.price)) \in
                    {<<>>, <<"f","r","e","e">>, <<"$","0">>, <<"$","0",".","0","0">>,
                     <<"0">>, <<"0",".","0","0">>})
          /\ r.is_free \in {0, 1}
    /\ ~check_is_free(P_20) /\ ~check_is_free(PR_FreeAdmission) /\ ~check_is_free(None)

\* " FREE " was stored as free
C36_Witness ==
    /\ ingPc = "idle" /\ ingResult.kind = "returned"
    /\ \E r \in committed.events : r.price = P_FREEpad /\ r.is_free = 1

\* C31: ingest_events takes the batch files in the sorted order of their names
\* and the drafts of a file in the file's order: a record whose natural key
\* several batches hold ends the run with the overwritable fields of the
\* draft of the last of those files in name order (the last such draft in it)
FilesHolding(key) ==
    {f \in DOMAIN outputDir :
        \E i \in DOMAIN EventsOf(outputDir[f]) : KeyOfRaw(EventsOf(outputDir[f])[i]) = key}
LastFileHolding(key) ==
    CHOOSE f \in FilesHolding(key) : \A g \in FilesHolding(key) \ {f} : StrLess(g, f)
LastDraftOf(key) ==
    LET items == EventsOf(outputDir[LastFileHolding(key)])
        at == {i \in DOMAIN items : KeyOfRaw(items[i]) = key}
    IN  items[CHOOSE i \in at : \A j \in at : j <= i]
Overwritable(x) ==
    <<x.description, x.url, x.address, x.borough, x.end_time, x.category, x.source_id,
      x.image_url, x.price, x.is_free>>

C31_LastFileInNameOrderWins ==
    /\ \A i \in DOMAIN jsonFiles : \A j \in DOMAIN jsonFiles :
          i < j => StrLess(jsonFiles[i], jsonFiles[j])
    /\ (ingPc = "idle" /\ ingResult.kind = "returned")
       => \A r \in committed.events :
             /\ FilesHolding(RowKey(r)) # {}
             /\ Overwritable(r) = Overwritable(BindParams(LastDraftOf(RowKey(r))))

\* dice_... holds draft A and meetup_... draft B of the same key: the record
\* dice created carries B's fields
C31_Witness ==
    /\ ingPc = "idle" /\ ingResult.kind = "returned" /\ runs = 1
    /\ DOMAIN outputDir = {F_dice, F_meetup}
    /\ outputDir[F_dice] = ListFile(<<DraftA>>) /\ outputDir[F_meetup] = ListFile(<<DraftB>>)
    /\ \E r \in committed.events :
          /\ committed.events = {r}
          /\ r.price = P_Free /\ r.description = T_NewTrumpet /\ r.borough = "Brooklyn"

\* C38: ingest_events commits once, after the last batch: the committed store
\* changes at no other step, and a run that a batch or a draft makes raise
\* leaves it as it was before the run, the writes of the batches processed
\* before the failure rolled back
C38_FailedRunLeavesStore ==
    /\ [][committed' # committed
          => (/\ ingPc = "loop" /\ fileIdx > Len(jsonFiles)
              /\ ingPc' = "idle" /\ ingResult'.kind = "returned")]_vars
    /\ [][(runs' = runs + 1 /\ ingResult'.kind = "raised")
          => (committed' = committed /\ db' = committed)]_vars

\* the draft without venue of meetup_... ended the run after both drafts of
\* dice_... had been written
C38_Witness ==
    /\ ingPc = "idle" /\ ingResult.kind = "raised" /\ ingResult.error = "ValidationError"
    /\ DOMAIN outputDir = {F_dice, F_meetup}
    /\ outputDir[F_dice] = ListFile(<<DraftA, DraftC>>)
    /\ outputDir[F_meetup] = ListFile(<<DraftBad>>)
    /\ db = EmptyDb /\ committed = EmptyDb

\* C39: no ingestion changes the source of a stored record: a draft of
\* another source with the key of a record gives the record its other
\* overwritable fields and leaves the source of the draft that created it
C39_SourceKept ==
    /\ [](lastStmt.kind = "update" =>
            \A o \in lastStmt.old : \A n \in lastStmt.new : \A raw \in lastStmt.raw :
                /\ n.source = o.source
                /\ Overwritable(n) = Overwritable(BindParams(raw)))
    /\ [][\A s \in {<<db, db'>>, <<committed, committed'>>} :
            \A r \in s[1].events : \A n \in s[2].events :
                n.id = r.id => n.source = r.source]_vars

\* a meetup draft updated the record a dice draft had created
C39_Witness ==
    /\ lastStmt.kind = "update"
    /\ \E o \in lastStmt.old : \E n \in lastStmt.new : \E raw \in lastStmt.raw :
          /\ raw.source = "meetup" /\ o.source = "dice" /\ n.source = "dice"
          /\ n.source_id = "m-7" /\ n.price = P_Free
          /\ n \in db.events

\* C32: every request a crawler sends carries a User-Agent of the pool, and on
\* every retry inside fetch the client's header is set again to a value of
\* the pool before the next attempt goes out; the header changes at no other
\* point of a fetch
Live == DOMAIN scrapers \cap DOMAIN scrapers'

C32_HeaderFromPool ==
    /\ [](\A i \in DOMAIN scrapers :
            scrapers[i].pc = "get"
            => /\ scrapers[i].sent \in USER_AGENTS
               /\ Profile(scrapers[i].name).via = "fetch" => scrapers[i].sent = scrapers[i].ua)
    /\ [][\A i \in Live :
            /\ (scrapers[i].pc = "backoff" /\ scrapers'[i].pc # "backoff")
               => /\ scrapers'[i].ua \in USER_AGENTS
                  /\ scrapers'[i].attempt = scrapers[i].attempt + 1
                  /\ scrapers'[i].pc = "wait"
            /\ (scrapers[i].client = "open" /\ scrapers'[i].ua # scrapers[i].ua)
               => scrapers[i].pc = "backoff"]_vars

\* the third attempt of a fetch is in flight, after two backoff sleeps
C32_Witness ==
    \E i \in DOMAIN scrapers :
        /\ scrapers[i].pc = "get" /\ scrapers[i].attempt = 3
        /\ Len(scrapers[i].tries) = 2 /\ Len(scrapers[i].waits) = 2
        /\ scrapers[i].sent = "Firefox/Linux"

\* C40: inside fetch only an HTTPStatusError or a TransportError is followed by
\* another attempt; any other exception of an attempt leaves fetch at once (no
\* further attempt, no backoff sleep, no new header), and the last failed
\* attempt is followed by the RuntimeError without a backoff sleep
C40_OnlyFetchFailuresRetried ==
    /\ [](\A i \in DOMAIN scrapers :
            Profile(scrapers[i].name).via = "fetch"
            => \E s \in {scrapers[i]} :
               /\ \A k \in 1..(Len(s.tries) - 1) : s.tries[k] \in FetchFailures
               /\ Len(s.waits) = IF s.pc \in {"wait", "get"} \/ s.tries = <<>>
                                  THEN Len(s.tries) ELSE Len(s.tries) - 1
               /\ (s.tries # <<>> /\ s.tries[Len(s.tries)] = "Other")
                  => /\ s.outcome = "error" /\ s.exc = "Other"
                     /\ s.pc \in {"finally", "raise", "raised"}
               /\ s.outcome = "terminal"
                  => /\ Len(s.tries) = max_retries
                     /\ Len(s.waits) = max_retries - 1
                     /\ s.pc \notin {"wait", "get", "backoff"})
    /\ [][\A i \in Live :
            (/\ Profile(scrapers[i].name).via = "fetch"
             /\ scrapers'[i].tries = Append(scrapers[i].tries, "Other"))
            => /\ scrapers'[i].ua = scrapers[i].ua
               /\ scrapers'[i].attempt = scrapers[i].attempt
               /\ scrapers'[i].waits = scrapers[i].waits
               /\ scrapers'[i].pc = "finally"]_vars

\* the second attempt of a fetch raised something else: one backoff sleep, no
\* third attempt, run() raised it
C40_Witness ==
    \E i \in DOMAIN scrapers :
        /\ scrapers[i].tries = <<"TransportError", "Other">>
        /\ scrapers[i].waits = <<retry_backoff>>
        /\ scrapers[i].attempt = 2
        /\ scrapers[i].pc = "raised" /\ scrapers[i].exc = "Other"

\* C37: a run() that succeeds writes its batch to the path its crawler's name
\* and the date fix: there is one batch file for each source that has
\* succeeded on the date and no other; a later successful run of the crawler
\* puts its own drafts in the place of the whole earlier batch, a run that
\* fails leaves every file as it was
Succeeded == {runLog[k].name : k \in {j \in DOMAIN runLog : runLog[j].ok}}

C37_OneBatchPerSourceAndDate ==
    /\ [](/\ DOMAIN outputDir = {OutputPath(n, today) : n \in Succeeded}
          /\ Cardinality(DOMAIN outputDir) = Cardinality(Succeeded))
    /\ [][\A i \in Live :
            /\ (scrapers[i].pc = "write" /\ scrapers'[i].pc = "returned")
               => \E path \in {OutputPath(scrapers[i].name, today)} :
                     /\ path \in DOMAIN outputDir'
                     /\ outputDir'[path] = ListFile(scrapers[i].got)
                     /\ \A f \in DOMAIN outputDir \ {path} :
                           f \in DOMAIN outputDir' /\ outputDir'[f] = outputDir[f]
            /\ (scrapers[i].pc # "write" /\ scrapers'[i] # scrapers[i])
               => outputDir' = outputDir]_vars

\* nyc_parks ran twice: its first run wrote two drafts, its second one, which
\* is all the file holds now
C37_Witness ==
    /\ Len(runLog) = 2
    /\ \A k \in DOMAIN runLog : runLog[k] = [name |-> "nyc_parks", ok |-> TRUE]
    /\ Len(all_events) = 3
    /\ DOMAIN outputDir = {OutputPath("nyc_parks", today)}
    /\ outputDir[OutputPath("nyc_parks", today)] = ListFile(<<ItemOf("nyc_parks", 1)>>)


\* what an instance holds apart from its place on the time axis
Own(s) == [client |-> s.client, ua |-> s.ua, pc |-> s.pc, attempt |-> s.attempt,
           last_exc |-> s.last_exc, tries |-> s.tries, waits |-> s.waits,
           page |-> s.page, got |-> s.got, outcome |-> s.outcome]

\* the slides of the time origin a step may have made
Slides == IF clock' = Horizon THEN 0..(Horizon + MaxTime * 8) ELSE {0}

\* C33: a fetch or run step of one instance leaves every other live instance's
\* client, User-Agent, retry progress and position as they were, and its
\* last-request time at the same instant (it moves only with the origin of
\* time); the User-Agent pool is never modified
C33_InstancesIsolated ==
    /\ [](uaPool = USER_AGENTS)
    /\ [][/\ uaPool' = uaPool
          /\ \A i \in Live : \A j \in Live \ {i} :
                Own(scrapers'[i]) # Own(scrapers[i])
                => /\ Own(scrapers'[j]) = Own(scrapers[j])
                   /\ \E sl \in Slides :
                         scrapers'[j].last_request = Max(0, scrapers[j].last_request - sl)]_vars

C33_Witness ==
    /\ DOMAIN scrapers = {1, 2}
    /\ scrapers[1].pc = "get" /\ scrapers[1].attempt = 2
    /\ scrapers[2].pc = "backoff" /\ scrapers[2].attempt = 1
    /\ scrapers[1].ua # scrapers[2].ua
    /\ scrapers[1].last_request > scrapers[2].last_request
    /\ scrapers[2].sentAt # -1


====
